---- MODULE Spec2Model ----
(***************************************************************************)
(* Lark Base builder: the POST /api/create run of functions/[[path]].js.   *)
(* One run of handleApiPost is a sequence of awaited steps; every await of *)
(* a remote call is a step of the model, and the pause that follows a call *)
(* in the code belongs to the step that made the call.                     *)
(*                                                                         *)
(* Indices are 1-based here (tables[1] is the code's tables[0]).           *)
(***************************************************************************)
EXTENDS Integers, Sequences, FiniteSets, TLC

----------------------------------------------------------------------------
(* Bounds of the model *)

\* longest schema the AI answers with (besides the oversized one)
MaxTables == 2
\* largest value of the `retries` option given to a direct apiCall
MaxRetries == 4
\* most white space between a fence (or the prose) and the JSON text
MaxPad == 1
\* largest row index given to generateDummyData on its own
MaxIndex == 3

(* Program constants *)

DefaultRetries == 3
MaxAiAttempts == 5
MaxPromptLen == 2000
MaxSchemaTables == 10
MaxSampleRows == 20
BatchSize == 10

----------------------------------------------------------------------------
(* Values *)

NoType == "<undefined>"   \* field.type is undefined

Pow2(n) == IF n = 0 THEN 1 ELSE IF n = 1 THEN 2 ELSE IF n = 2 THEN 4
           ELSE IF n = 3 THEN 8 ELSE IF n = 4 THEN 16 ELSE IF n = 5 THEN 32
           ELSE 64

Min(a, b) == IF a < b THEN a ELSE b

\* String.prototype.toLowerCase over the type names of the model
toLowerCase(t) ==
    CASE t = "Text" -> "text"
      [] t = "Single_Select" -> "single_select"
      [] t = "MULTI_SELECT" -> "multi_select"
      [] t = "Checkbox" -> "checkbox"
      [] t = "Constructor" -> "constructor"
      [] OTHER -> t

\* String.prototype.trim over the option names of the model
trim(t) ==
    CASE t = " A" -> "A"
      [] t = "B " -> "B"
      [] t = " " -> ""
      [] OTHER -> t

\* An error is the kind of its message; `last` is the wrapped error of
\* generateSchemaFromAI's final throw.
Err(k) == [kind |-> k, last |-> "-"]
NoErr == Err("none")

\* The fragments the outer catch looks for in error.message.
Markers(e) ==
    LET k == IF e.kind = "aiFailed" THEN e.last ELSE e.kind IN
    CASE k = "geminiKeyMissing" -> {"GEMINI_API_KEY"}
      [] k = "aiHttp429" -> {"429"}
      [] k = "tokenHttp429" -> {"429"}
      [] OTHER -> {}

\* handleApiPost's catch: the user-facing message
UserMessage(e) ==
    IF "GEMINI_API_KEY" \in Markers(e) THEN "aiConfigMessage"
    ELSE IF "tenant_access_token" \in Markers(e) THEN "larkAuthMessage"
    ELSE IF "rate limit" \in Markers(e) \/ "429" \in Markers(e) THEN "rateLimitMessage"
    ELSE e.kind

----------------------------------------------------------------------------
(* Field Type Mapper and Sample Data Synthesizer *)

typeMap ==
    [text |-> 1, number |-> 2, single_select |-> 3, multi_select |-> 4,
     date |-> 5, date_time |-> 5, checkbox |-> 7, member |-> 11, phone |-> 13,
     url |-> 15, email |-> 23, currency |-> 25, rating |-> 26]

RECURSIVE FilterNonEmpty(_)
FilterNonEmpty(s) ==
    IF s = <<>> THEN <<>>
    ELSE IF Head(s) = "" THEN FilterNonEmpty(Tail(s))
    ELSE <<Head(s)>> \o FilterNonEmpty(Tail(s))

\* An option string is the sequence of its comma-separated parts; a missing or
\* empty string is <<>>. Lines 1315 and 1353: the parts trimmed, the empty ones
\* dropped.
getOptions(options) == FilterNonEmpty([k \in 1..Len(options) |-> trim(options[k])])

\* the three placeholder names of lines 1342-1344, 1370 and 1384
FallbackOptions == <<"opt1", "opt2", "opt3">>

\* the lower-case names that an object literal inherits from Object.prototype
InheritedKeys == {"constructor", "__proto__"}

\* getFieldProperty: "throw" (type is not a string), "undefined" (no mapping),
\* "inherited" (typeMap[...] is a property of Object.prototype, not a mapping)
\* or the payload
getFieldProperty(type, options) ==
    IF type = NoType THEN [r |-> "throw"]
    ELSE IF toLowerCase(type) \in InheritedKeys THEN [r |-> "inherited"]
    ELSE IF toLowerCase(type) \notin DOMAIN typeMap THEN [r |-> "undefined"]
    ELSE LET key == toLowerCase(type)
             opts == IF key \in {"single_select", "multi_select"}
                     THEN IF type \in {"single_select", "multi_select"}
                             /\ getOptions(options) = <<>>
                          THEN FallbackOptions
                          ELSE getOptions(options)
                     ELSE <<>>
         IN [r |-> "payload", type |-> typeMap[key], options |-> opts]

\* generateDummyData returns null exactly for the types outside its switch
DummyTypes ==
    {"text", "email", "phone", "number", "currency", "single_select",
     "multi_select", "date", "date_time", "checkbox", "url", "rating"}

\* A generated value: its kind, and the number, boolean or option names it
\* is made of.
Value(kind, n, b, names) == [kind |-> kind, n |-> n, b |-> b, names |-> names]
null == Value("null", 0, FALSE, <<>>)

\* (variant) the option is taken at the 1-based row number
SingleOption_ByRowNumber(selectOptions, index) ==
    selectOptions[((index + 1) % Len(selectOptions)) + 1]

\* line 1368 (sequences are 1-based here)
SingleOption(selectOptions, index) == selectOptions[(index % Len(selectOptions)) + 1]

\* (variant) the second option is pushed without looking at the first
Selected_NoIncludesCheck(selectOptions, index) ==
    LET first == selectOptions[(index % Len(selectOptions)) + 1]
        second == selectOptions[((index + 1) % Len(selectOptions)) + 1]
    IN IF Min(2, Len(selectOptions)) = 2 THEN <<first, second>> ELSE <<first>>

\* lines 1374-1382: the loop over j = 0, 1
Selected(selectOptions, index) ==
    LET first == selectOptions[(index % Len(selectOptions)) + 1]
        second == selectOptions[((index + 1) % Len(selectOptions)) + 1]
    IN IF Min(2, Len(selectOptions)) = 2 /\ second # first
       THEN <<first, second>>
       ELSE <<first>>

\* (variant) the parity of the row index itself
CheckboxValue_ByIndex(index) == index % 2 = 0

\* line 1393, with i = index + 1
CheckboxValue(index) == (index + 1) % 2 = 0

\* generateDummyData, lines 1351-1401; randomDays is what Math.random gives
\* for a date. A type that is not a string makes toLowerCase throw.
generateDummyData(type, options, index, randomDays) ==
    LET i == index + 1
        selectOptions == getOptions(options)
        key == toLowerCase(type)
    IN IF type = NoType THEN Value("throw", 0, FALSE, <<>>)
       ELSE IF key \notin DummyTypes THEN null
       ELSE CASE key = "text" -> Value("sample", i, FALSE, <<>>)
              [] key = "email" -> Value("email", i, FALSE, <<>>)
              [] key = "phone" -> Value("phone", index % 10, FALSE, <<>>)
              [] key = "number" -> Value("number", 100 + (i * 50), FALSE, <<>>)
              [] key = "currency" -> Value("number", 10000 * i, FALSE, <<>>)
              [] key = "single_select" ->
                   IF Len(selectOptions) > 0
                   THEN Value("option", 0, FALSE, <<SingleOption(selectOptions, index)>>)
                   ELSE Value("option", 0, FALSE, <<FallbackOptions[(index % 3) + 1]>>)
              [] key = "multi_select" ->
                   IF Len(selectOptions) > 0
                   THEN Value("options", 0, FALSE, Selected(selectOptions, index))
                   ELSE Value("options", 0, FALSE, <<FallbackOptions[(index % 3) + 1]>>)
              [] key \in {"date", "date_time"} -> Value("date", randomDays, FALSE, <<>>)
              [] key = "checkbox" -> Value("boolean", 0, CheckboxValue(index), <<>>)
              [] key = "url" -> Value("url", i, FALSE, <<>>)
              [] key = "rating" -> Value("rating", (index % 5) + 1, FALSE, <<>>)

\* whether the value of a field is null does not depend on the row
generateDummyDataIsNull(type) == generateDummyData(type, <<>>, 0, 0) = null

\* (variant) a row is kept whatever its values
RowKept_Always(fields, row) == TRUE

\* lines 1270-1279: the row has a value for some field
RowKept(fields, row) ==
    \E j \in 1..Len(fields) :
        generateDummyData(fields[j].type, fields[j].options, row, 0) # null

\* addSampleRecords, lines 1264-1284: "throw" when generateDummyData throws on
\* a field without type, else the number of rows kept (a row is kept when some
\* field has a value; the values do not depend on the row for being null)
RowsBuilt(fields, count) ==
    IF count <= 0 \/ Len(fields) = 0 THEN [r |-> "rows", n |-> 0]
    ELSE IF \E j \in 1..Len(fields) : fields[j].type = NoType THEN [r |-> "throw"]
    ELSE [r |-> "rows",
          n |-> Cardinality({row \in 0..(count - 1) : RowKept(fields, row)})]

----------------------------------------------------------------------------
(* Inputs *)

Field(t) == [type |-> t, options |-> <<>>]

\* hasFields is FALSE when the table has no `fields` property
Table(has, fs, n) == [hasFields |-> has, fields |-> fs, sampleDataCount |-> n]

\* the tables a generated schema is made of
TableShapes ==
    { Table(FALSE, <<>>, 3),
      Table(TRUE, <<Field("bogus"), Field("text")>>, 3),
      Table(TRUE, <<Field("text"), Field("member")>>, 25),
      Table(TRUE, <<Field(NoType), Field("member")>>, 3) }

\* further tables, for the run of one table on its own: no field, a field
\* without a sample value, no rows asked for, rows for two unequal batches,
\* and a field type that names a property of Object.prototype
MoreTableShapes ==
    { Table(TRUE, <<>>, 3),
      Table(TRUE, <<Field("member")>>, 3),
      Table(TRUE, <<Field("text")>>, 0),
      Table(TRUE, <<Field("text"), Field("checkbox")>>, 12),
      Table(TRUE, <<Field("Constructor")>>, 3) }

\* the type names given to the mapper and the synthesizer on their own: the
\* thirteen names, other letter cases of some, names without a mapping, a
\* name that is a property of Object.prototype, and a type that is no string
TypeNames ==
    DOMAIN typeMap
    \cup {"Text", "Single_Select", "MULTI_SELECT", "Checkbox", "bogus",
          "constructor", "Constructor", NoType}

\* the option strings, as their comma-separated parts (<<>>: missing or empty)
OptionStrings ==
    { <<>>, <<"A", "B", "C">>, <<" A", "", "B ">>, <<"A", "A">>, <<"A">>, <<" ">>,
      <<"A", "A", "B">> }

\* (Math.random() - 0.5) * 60, line 1389: the ends and the middle of the range
RandomDays == {-30, 0, 29}

SeqsUpTo(S, n) == UNION { [1..m -> S] : m \in 1..n }

\* a schema with more tables than handleApiPost accepts
OversizedSchema ==
    [baseName |-> "base", tablesKind |-> "array",
     tables |-> [k \in 1..(MaxSchemaTables + 1) |-> Table(TRUE, <<>>, 0)]]

\* the objects the AI text parses to that pass the checks of lines 1152-1158.
\* tablesKind tells what the `tables` property is: "array", "missing", or
\* "object" (present but not an array); `tables` holds the entries of an array.
Schemas ==
    { [baseName |-> "base", tablesKind |-> "array", tables |-> ts] :
        ts \in SeqsUpTo(TableShapes, MaxTables) }
    \cup {OversizedSchema}

\* the objects the AI text parses to that fail those checks
BadObjects ==
    { [baseName |-> "", tablesKind |-> "array", tables |-> <<Table(TRUE, <<>>, 3)>>],
      [baseName |-> "base", tablesKind |-> "missing", tables |-> <<>>],
      [baseName |-> "base", tablesKind |-> "object", tables |-> <<>>],
      [baseName |-> "base", tablesKind |-> "array", tables |-> <<>>] }

ParsedObjects == Schemas \cup BadObjects

NoSchema == [baseName |-> "", tablesKind |-> "missing", tables |-> <<>>]

\* prompt: present (truthy), its length and the length of its trim
Prompts ==
    { [present |-> FALSE, len |-> 0, trimLen |-> 0],
      [present |-> TRUE, len |-> 3, trimLen |-> 0],
      [present |-> TRUE, len |-> MaxPromptLen, trimLen |-> MaxPromptLen],
      [present |-> TRUE, len |-> MaxPromptLen + 1, trimLen |-> MaxPromptLen + 1] }

Envs == [GEMINI_API_KEY : BOOLEAN, LARK_CREDENTIALS : BOOLEAN]

\* what one workspace request can be answered with
ApiOutcomes == {"ok", "http429", "httpError", "networkError", "codeRateLimit", "codeOther"}

\* The answers drawn in a whole run. An HTTP error, a network error and a
\* non-zero code other than the rate-limit one all end in the catch of lines
\* 1220-1226 and differ in the text of the error only: the HTTP error stands
\* for the three here, and all three are drawn where apiCall or one table is
\* run on its own.
RunOutcomes == ApiOutcomes \ {"networkError", "codeOther"}

\* what one request to the AI endpoint can end in
\* what one request to the AI endpoint can end in before the parsed object
\* is checked: "ok" is an answer whose text parsed to an object
AiOutcomes ==
    {"ok", "aiNetworkError", "aiHttp429", "aiHttpError", "aiNoText",
     "aiParseFailed", "aiNoData"}

TokenOutcomes == {"ok", "tokenHttp429", "tokenHttpError", "tokenCode", "tokenNetworkError"}

----------------------------------------------------------------------------
(* The text of an AI answer and its parsing, lines 1118-1149 *)

\* A text is a sequence of tokens: "x" a character of prose, " " white space,
\* "{" and "}", "F" the opening fence (three backticks and the word json),
\* "T" three backticks, "a" the members baseName and tables of a schema,
\* "<" a member name with the opening quote of its string value, ">" the
\* closing quote. Between "<" and ">" every token is a character of the string.
Ticks == {"F", "T"}

FirstIndex(t, S) ==
    IF \E k \in 1..Len(t) : t[k] \in S
    THEN CHOOSE k \in 1..Len(t) : t[k] \in S /\ \A j \in 1..(k - 1) : t[j] \notin S
    ELSE 0

LastIndex(t, S) ==
    IF \E k \in 1..Len(t) : t[k] \in S
    THEN CHOOSE k \in 1..Len(t) : t[k] \in S /\ \A j \in (k + 1)..Len(t) : t[j] \notin S
    ELSE 0

IsBlank(t) == \A k \in 1..Len(t) : t[k] = " "

\* the text without its leading and trailing white space
RECURSIVE TrimWs(_)
TrimWs(t) ==
    IF t = <<>> THEN <<>>
    ELSE IF Head(t) = " " THEN TrimWs(Tail(t))
    ELSE IF t[Len(t)] = " " THEN TrimWs(SubSeq(t, 1, Len(t) - 1))
    ELSE t

NoValue == [ok |-> FALSE, value |-> <<>>]

\* the members of an object, after its "{": a value is the sequence of the
\* members, white space between them dropped, the characters of strings kept
RECURSIVE ParseMembers(_, _)
ParseMembers(t, acc) ==
    IF t = <<>> THEN NoValue
    ELSE CASE Head(t) = " " -> ParseMembers(Tail(t), acc)
           [] Head(t) = "a" -> ParseMembers(Tail(t), Append(acc, <<"a">>))
           [] Head(t) = "<" ->
                LET rest == Tail(t)
                    close == FirstIndex(rest, {">"})
                IN IF close = 0 THEN NoValue
                   ELSE ParseMembers(SubSeq(rest, close + 1, Len(rest)),
                                     Append(acc, <<"<">> \o SubSeq(rest, 1, close - 1)))
           [] Head(t) = "}" -> IF IsBlank(Tail(t)) THEN [ok |-> TRUE, value |-> acc]
                               ELSE NoValue
           [] OTHER -> NoValue

\* JSON.parse: ok is FALSE when it throws
JSONparse(t) ==
    LET u == TrimWs(t)
    IN IF u = <<>> \/ Head(u) # "{" THEN NoValue ELSE ParseMembers(Tail(u), <<>>)

\* (variant) the pattern of line 1128 matches no text
FenceMatch_NoMatch(t) == [found |-> FALSE, group |-> <<>>]

\* rawText.match of line 1128: the leftmost opening fence, white space, the
\* shortest text that is followed by white space and three backticks
FenceMatch(t) ==
    LET p == FirstIndex(t, {"F"})
        after == SubSeq(t, p + 1, Len(t))
        q == FirstIndex(after, Ticks)
    IN IF p = 0 \/ q = 0 THEN [found |-> FALSE, group |-> <<>>]
       ELSE [found |-> TRUE, group |-> TrimWs(SubSeq(after, 1, q - 1))]

Parsed(v, by) == [r |-> "parsed", value |-> v.value, by |-> by]
NotParsed(r) == [r |-> r, value |-> <<>>, by |-> "none"]

\* lines 1123-1124: "threw" when JSON.parse throws
DirectParse(t) ==
    IF JSONparse(t).ok THEN Parsed(JSONparse(t), "direct") ELSE NotParsed("threw")

\* lines 1127-1131: "nothing" when nothing is assigned and nothing thrown
FencedParse(t) ==
    LET jsonMatch == FenceMatch(t)
    IN IF ~jsonMatch.found \/ jsonMatch.group = <<>> THEN NotParsed("nothing")
       ELSE IF JSONparse(jsonMatch.group).ok
       THEN Parsed(JSONparse(jsonMatch.group), "fenced")
       ELSE NotParsed("threw")

\* lines 1134-1140
BraceParse(t) ==
    LET firstBrace == FirstIndex(t, {"{"})
        lastBrace == LastIndex(t, {"}"})
    IN IF firstBrace # 0 /\ lastBrace # 0 /\ lastBrace > firstBrace
       THEN LET jsonText == SubSeq(t, firstBrace, lastBrace)
            IN IF JSONparse(jsonText).ok THEN Parsed(JSONparse(jsonText), "braces")
               ELSE NotParsed("threw")
       ELSE NotParsed("nothing")

\* lines 1121-1149: the nested try blocks. A strategy is tried in the catch
\* block of the one before it; parsedData left null is the error of line 1148,
\* the third strategy throwing is the error of line 1142.
parseRawText(rawText) ==
    LET d == DirectParse(rawText)
        g == FencedParse(rawText)
        b == BraceParse(rawText)
    IN IF d.r = "parsed" THEN d
       ELSE IF g.r = "parsed" THEN g
       ELSE IF g.r = "nothing" THEN NotParsed("aiNoData")
       ELSE IF b.r = "parsed" THEN b
       ELSE IF b.r = "nothing" THEN NotParsed("aiNoData")
       ELSE NotParsed("aiParseFailed")

\* the JSON texts the answers are built around
Bodies ==
    { <<"{", "a", "}">>,
      <<"{", " ", "a", " ", "}">>,
      <<"{", "<", "T", ">", "a", "}">>,
      <<"{", "<", "F", "x", "T", ">", "a", "}">>,
      <<"{", "a", "<", "x", "}", ">", "}">>,
      <<"{", "}">>,
      <<"{", "a">> }

Pad(n) == [k \in 1..n |-> " "]

\* an answer: prose, an opening fence ("json": labelled, "plain": not), white
\* space, the JSON text, white space, the closing fence, prose
Answers ==
    [pre : {<<>>, <<"x", " ">>}, fence : {"none", "json", "plain"}, pad : 0..MaxPad,
     body : Bodies, post : {<<>>, <<" ", "x">>}]

NoAnswer == [pre |-> <<>>, fence |-> "none", pad |-> 0, body |-> <<>>, post |-> <<>>]

RawText(ans) ==
    ans.pre
    \o (CASE ans.fence = "json" -> <<"F">> [] ans.fence = "plain" -> <<"T">> [] OTHER -> <<>>)
    \o Pad(ans.pad) \o ans.body \o Pad(ans.pad)
    \o (IF ans.fence = "none" THEN <<>> ELSE <<"T">>)
    \o ans.post

----------------------------------------------------------------------------
VARIABLES
    prompt, env,          \* the request and the environment
    pc,                   \* where handleApiPost stands
    aiAttempt, aiLastError,   \* generateSchemaFromAI's locals
    aiWaits, aiSent,      \* the sleeps and requests of the generateSchemaFromAI
                          \* call in progress (a call that returned to
                          \* handleApiPost leaves nothing)
    aiPc,                 \* "idle", "entry", "fetch"; of a direct call also
                          \* "returned", "thrown"
    aiRet, aiErr,         \* what a direct generateSchemaFromAI returned or threw
    aiParsed,             \* parsedData of the last attempt of a direct call
    aiGotValid,           \* an attempt of a direct call passed all the checks
    schema,               \* aiResponse
    token,                \* tenantAccessToken: 0 when none, else the number of the
                          \* authentication request that returned it
    tokenSent,            \* requests sent to the auth endpoint
    baseState,            \* "none", "created" or "failed"
    i, f,                 \* table and field loop positions
    fieldsCreated,        \* the table's counter
    batchStart, allResults, rowCount,  \* addSampleRecords' loop
    results,              \* details
    response,             \* the HTTP response, once returned
    call,                 \* the apiCall in progress: kind, table, attempt, retries
    apiPc,                \* "idle", "fetch"; of a direct call also "returned", "thrown"
    apiRet,               \* what a direct apiCall returned: "data" or "undefined"
    apiErr,               \* what a direct apiCall threw
    waits,                \* the sleeps of the apiCall in progress
    sent,                 \* the requests the apiCall in progress has sent
    gotOk,                \* a direct apiCall has been answered with HTTP success
                          \* and code 0
    lastAnswer,           \* the answer to the last request of a direct apiCall
    applied,              \* direct call: the requests that the workspace carried out
    paused,               \* a pause has ended since the last answer of the workspace
    runs,                 \* two runs side by side: the locals of each
    world,                \* two runs side by side: who asked for each token and base
    issued,               \* per table, the kinds of request sent for it
    created,              \* the tables whose creation call returned a table_id
    fieldsSeen,           \* per table, the fields its loop has gone through
    made,                 \* per table, the fields whose call returned the new field
    batches,              \* per table, the batch calls made and what they stored
    fieldIn,              \* the field and row index given to the mapper on its own
    payload,              \* what getFieldProperty returned for it
    dummy,                \* what generateDummyData returned for it
    tstate,               \* per table, its provisioning state
    answer,               \* the AI answer given to the parsing of lines 1118-1149
    parsePc,              \* "idle", "text" (to be parsed), "done"
    parsed                \* the outcome of the parsing

vars == <<prompt, env, pc, aiAttempt, aiLastError, aiWaits, aiSent, aiPc, aiRet,
          aiErr, aiParsed, aiGotValid, schema, token,
          tokenSent, baseState, i, f, fieldsCreated, batchStart, allResults,
          rowCount, results, response, call, apiPc, apiRet, apiErr, waits, sent,
          gotOk, lastAnswer, issued, created, fieldsSeen, made, batches, tstate,
          answer, parsePc, parsed, fieldIn, payload, dummy, applied,
          paused, runs, world>>

apiVars == <<call, apiPc, apiRet, apiErr, waits, sent>>
aiLocals == <<aiAttempt, aiLastError, aiWaits, aiSent>>
aiDirect == <<aiRet, aiErr, aiParsed, aiGotValid>>
aiVars == <<aiLocals, aiPc, aiDirect>>
loopVars == <<i, f, fieldsCreated, batchStart, allResults, rowCount>>
directVars == <<gotOk, lastAnswer, applied, paused>>
parseVars == <<answer, parsePc, parsed>>
fieldVars == <<fieldIn, payload, dummy>>
pairVars == <<runs, world>>

NoCall == [kind |-> "none", table |-> 0, attempt |-> 0, retries |-> 0, token |-> 0]
NoResponse == [status |-> 0]

\* no batch call has been made for the table
NoBatches == [calls |-> 0, rows |-> 0, landed |-> 0, largest |-> 0]

\* no request for a token or a base has reached the workspace
NoWorld == [tokenLog |-> <<>>, baseLog |-> <<>>]

\* the mapper and the synthesizer have not been applied
NoField == [type |-> "", options |-> <<>>, index |-> 0]
NotMapped == [r |-> "none"]
NotGenerated == Value("none", 0, FALSE, <<>>)

tables == schema.tables

----------------------------------------------------------------------------
(* Remote API Client: apiCall *)

\* line 1199: the pause after an HTTP 429
RateLimitWait(attempt) == 1000 * Pow2(attempt)

\* line 1212: the pause after application code 99991400
CodeRateLimitWait(attempt) == 1000 * attempt

\* (variant) the catch block pauses one second whatever the attempt
RetryWait_Fixed(attempt) == 1000

\* line 1225: the pause of the catch block
RetryWait(attempt) == 1000 * attempt

\* (variant) the loop runs once more than `retries`
LoopCondition_OffByOne(attempt, retries) == attempt <= retries + 1

\* line 1185: the loop condition
LoopCondition(attempt, retries) == attempt <= retries

Outcome(r, e, trigger, ms) == [r |-> r, err |-> e, trigger |-> trigger, ms |-> ms]

\* (variant) the catch block rethrows whatever the attempt
CatchError_NoRetry(out, attempt, retries) == Outcome("thrown", Err(out), "none", 0)

\* the catch block, lines 1220-1226
CatchError(out, attempt, retries) ==
    IF attempt = retries
    THEN Outcome("thrown", Err(out), "none", 0)
    ELSE Outcome("retry", NoErr, "error", RetryWait(attempt))

\* One iteration of the for loop, lines 1185-1227, on the answer `out`:
\* the function returns data, throws, or sleeps and goes to the next iteration
\* ("retry"); when the sleep ends the last iteration the loop is left and the
\* function returns undefined.
AttemptResult(out, attempt, retries) ==
    CASE out = "ok" -> Outcome("data", NoErr, "none", 0)
      [] out = "http429" ->
           Outcome(IF LoopCondition(attempt + 1, retries) THEN "retry" ELSE "undefined",
                   NoErr, "http429", RateLimitWait(attempt))
      [] out = "codeRateLimit" /\ attempt < retries ->
           Outcome("retry", NoErr, "codeRateLimit", CodeRateLimitWait(attempt))
      [] OTHER -> CatchError(out, attempt, retries)

Slept(res) ==
    IF res.trigger = "none" THEN waits
    ELSE Append(waits, [trigger |-> res.trigger, attempt |-> call.attempt, ms |-> res.ms])

IdleCall ==
    /\ call' = NoCall
    /\ apiPc' = "idle"
    /\ apiRet' = "none"
    /\ apiErr' = NoErr
    /\ waits' = <<>>
    /\ sent' = 0

\* apiCall is entered with the token `tok`: attempt = 1, nothing sent yet
StartCall(kind, k, retries, tok) ==
    /\ call' = [kind |-> kind, table |-> k, attempt |-> 1, retries |-> retries,
                token |-> tok]
    /\ apiPc' = "fetch"
    /\ apiRet' = "none"
    /\ apiErr' = NoErr
    /\ waits' = <<>>
    /\ sent' = 0

----------------------------------------------------------------------------
(* handleApiPost *)

\* the outer catch, lines 150-171
Fatal(e) ==
    /\ response' = [status |-> 500, success |-> FALSE, error |-> UserMessage(e)]
    /\ pc' = "done"

\* (variant) the prompt is not trimmed before its length is looked at
PromptEmpty_NoTrim(p) == ~p.present \/ p.len = 0

\* line 31
PromptEmpty(p) == ~p.present \/ p.trimLen = 0

\* line 36
PromptTooLong(p) == p.len > MaxPromptLen

\* lines 29-41: the prompt is checked and generateSchemaFromAI is called
Validate ==
    /\ pc = "start"
    /\ IF PromptEmpty(prompt)
       THEN Fatal(Err("promptEmpty")) /\ aiPc' = aiPc
       ELSE IF PromptTooLong(prompt)
       THEN Fatal(Err("promptTooLong")) /\ aiPc' = aiPc
       ELSE pc' = "generateSchema" /\ response' = response /\ aiPc' = "entry"
    /\ UNCHANGED <<prompt, env, aiLocals, aiDirect, schema, token, tokenSent,
                   baseState, loopVars, results, apiVars, directVars, parseVars, pairVars, fieldVars, issued,
                   created, fieldsSeen, made, batches, tstate>>

----------------------------------------------------------------------------
(* generateSchemaFromAI *)

\* (variant) the key is not checked
KeyMissing_Unchecked(apiKey) == FALSE

\* line 1011
KeyMissing(apiKey) == ~apiKey

\* (variant) one more iteration
AiLoopCondition_OneMore(attempt) == attempt <= MaxAiAttempts + 1

\* line 1098: the loop condition
AiLoopCondition(attempt) == attempt <= MaxAiAttempts

\* line 1167: a sleep follows the failure of this attempt
AiSleepsAfter(attempt) == attempt < MaxAiAttempts

\* (variant) the pause grows by one second per attempt
AiWait_Linear(attempt) == 1000 * attempt

\* line 1169
AiWait(attempt) == 1000 * Pow2(attempt - 1)

\* (variant) an empty `tables` array is accepted
SchemaCheck_AcceptsNoTables(parsedData) ==
    IF parsedData.baseName = "" \/ parsedData.tablesKind # "array"
    THEN "aiBadShape"
    ELSE "ok"

\* lines 1152-1158: the checks of the parsed object
SchemaCheck(parsedData) ==
    IF parsedData.baseName = "" \/ parsedData.tablesKind # "array"
    THEN "aiBadShape"
    ELSE IF Len(parsedData.tables) = 0 THEN "aiNoTables"
    ELSE "ok"

\* what the try block of one attempt ends in: "ok" or the error thrown
AiCheck(out, parsedData) == IF out = "ok" THEN SchemaCheck(parsedData) ELSE out

\* (variant) a valid schema does not end the loop before its last iteration
AiIteration_KeepsTrying(out, parsedData, attempt) ==
    LET check == AiCheck(out, parsedData) IN
    IF check = "ok" /\ ~AiLoopCondition(attempt + 1)
    THEN [r |-> "return", err |-> NoErr, sleeps |-> FALSE]
    ELSE [r |-> IF AiLoopCondition(attempt + 1) THEN "retry" ELSE "throw",
          err |-> Err(check), sleeps |-> AiSleepsAfter(attempt)]

\* One iteration of the loop of lines 1098-1172: the function returns the
\* parsed object, or catches the error, sleeps when line 1167 says so, and goes
\* to the next iteration ("retry") or leaves the loop and throws (line 1176).
AiIteration(out, parsedData, attempt) ==
    LET check == AiCheck(out, parsedData) IN
    IF check = "ok"
    THEN [r |-> "return", err |-> NoErr, sleeps |-> FALSE]
    ELSE [r |-> IF AiLoopCondition(attempt + 1) THEN "retry" ELSE "throw",
          err |-> Err(check), sleeps |-> AiSleepsAfter(attempt)]

\* the error of line 1176, which wraps lastError.message
AiFailed(lastError) == [kind |-> "aiFailed", last |-> lastError.kind]

AiSlept(res) == IF res.sleeps THEN Append(aiWaits, AiWait(aiAttempt)) ELSE aiWaits

\* the locals of an iteration that ended in the catch block
AiCaught(res) ==
    /\ aiSent' = aiSent + 1
    /\ aiLastError' = res.err
    /\ aiAttempt' = aiAttempt + 1
    /\ aiWaits' = AiSlept(res)

\* (variant) handleApiPost accepts one table more
TooManyTables_OffByOne(n) == n > MaxSchemaTables + 1

\* line 49
TooManyTables(n) == n > MaxSchemaTables

\* lines 41-53: generateSchemaFromAI returned to handleApiPost (its locals are
\* gone), which checks the schema and goes on to the token
SchemaReturned(s) ==
    /\ schema' = s
    /\ issued' = [k \in 1..Len(s.tables) |-> {}]
    /\ tstate' = [k \in 1..Len(s.tables) |-> "Pending"]
    /\ fieldsSeen' = [k \in 1..Len(s.tables) |-> 0]
    /\ made' = [k \in 1..Len(s.tables) |-> {}]
    /\ batches' = [k \in 1..Len(s.tables) |-> NoBatches]
    /\ aiSent' = 0
    /\ aiAttempt' = 0
    /\ aiLastError' = NoErr
    /\ aiWaits' = <<>>
    /\ aiPc' = "idle"
    /\ IF s.baseName = "" \/ s.tablesKind = "missing" \/ Len(s.tables) = 0
       THEN Fatal(Err("schemaInvalid"))
       ELSE IF TooManyTables(Len(s.tables))
       THEN Fatal(Err("tooManyTables"))
       ELSE pc' = "getToken" /\ response' = response
    /\ UNCHANGED <<aiRet, aiErr>>

\* generateSchemaFromAI threw to handleApiPost: line 150
SchemaFailed(res) ==
    /\ AiCaught(res)
    /\ aiPc' = "idle"
    /\ Fatal(AiFailed(res.err))
    /\ UNCHANGED <<aiRet, aiErr, schema, issued,
                   fieldsSeen, made, batches, tstate>>

\* a direct call of generateSchemaFromAI returned
DirectAiReturned(s) ==
    /\ aiSent' = aiSent + 1
    /\ aiPc' = "returned"
    /\ aiRet' = s
    /\ UNCHANGED <<aiAttempt, aiLastError, aiWaits, aiErr, pc, response, schema,
                   issued, fieldsSeen, made, batches, tstate>>

\* a direct call of generateSchemaFromAI threw
DirectAiThrown(res) ==
    /\ AiCaught(res)
    /\ aiPc' = "thrown"
    /\ aiErr' = AiFailed(res.err)
    /\ UNCHANGED <<aiRet, pc, response, schema, issued,
                   fieldsSeen, made, batches, tstate>>

\* lines 1011-1013: generateSchemaFromAI is entered
AiEnter ==
    /\ aiPc = "entry"
    /\ IF KeyMissing(env.GEMINI_API_KEY)
       THEN IF pc = "generateSchema"
            THEN /\ Fatal(Err("geminiKeyMissing"))
                 /\ aiPc' = "idle"
                 /\ aiErr' = aiErr
            ELSE /\ aiPc' = "thrown"
                 /\ aiErr' = Err("geminiKeyMissing")
                 /\ UNCHANGED <<pc, response>>
       ELSE /\ aiPc' = "fetch"
            /\ UNCHANGED <<aiErr, pc, response>>
    /\ UNCHANGED <<prompt, env, aiLocals, aiRet, aiParsed, aiGotValid, schema,
                   token, tokenSent, baseState, loopVars, results, apiVars,
                   directVars, parseVars, pairVars, fieldVars, issued, created,
                   fieldsSeen, made, batches, tstate>>

\* One attempt of generateSchemaFromAI (lines 1098-1172): a request is sent and
\* answered with `out`, whose text parses to `parsedData`. When the function
\* ends, the code that awaits it runs on to its next await.
AiAttempt(out, parsedData) ==
    /\ aiPc = "fetch"
    /\ AiLoopCondition(aiAttempt)
    /\ LET res == AiIteration(out, parsedData, aiAttempt)
           direct == pc = "generateSchemaFromAI"
       IN /\ aiParsed' = IF ~direct THEN aiParsed
                         ELSE IF out = "ok" THEN parsedData ELSE NoSchema
          /\ aiGotValid' = (direct /\ AiCheck(out, parsedData) = "ok")
          /\ CASE res.r = "retry" ->
                    /\ AiCaught(res)
                    /\ UNCHANGED <<aiPc, aiRet, aiErr, pc, response, schema, issued,
                                   fieldsSeen, made, batches, tstate>>
               [] res.r = "return" ->
                    IF direct
                    THEN DirectAiReturned(parsedData)
                    ELSE SchemaReturned(parsedData)
               [] res.r = "throw" ->
                    IF direct THEN DirectAiThrown(res) ELSE SchemaFailed(res)
    /\ UNCHANGED <<prompt, env, token, tokenSent, baseState, loopVars, results,
                   apiVars, directVars, parseVars, pairVars, fieldVars, created>>

----------------------------------------------------------------------------
(* handleApiPost, from the token on *)

\* (variant) a failed authentication request is sent once more
GetToken_Retry(out) ==
    /\ pc = "getToken"
    /\ IF ~env.LARK_CREDENTIALS
       THEN /\ Fatal(Err("credentialsMissing"))
            /\ UNCHANGED <<token, tokenSent, apiVars>>
       ELSE /\ tokenSent' = tokenSent + 1
            /\ IF out = "ok"
               THEN /\ token' = tokenSent + 1
                    /\ pc' = "createBase"
                    /\ response' = response
                    /\ StartCall("base", 0, DefaultRetries, tokenSent + 1)
               ELSE /\ IF tokenSent = 0
                       THEN pc' = pc /\ response' = response
                       ELSE Fatal(Err(out))
                    /\ UNCHANGED <<token, apiVars>>
    /\ UNCHANGED <<prompt, env, aiVars, schema, baseState, loopVars, results,
                   directVars, parseVars, pairVars, fieldVars, issued, created,
                   fieldsSeen, made, batches, tstate>>

\* getTenantAccessToken, lines 1230-1254, then createBaseApp is called
GetToken(out) ==
    /\ pc = "getToken"
    /\ IF ~env.LARK_CREDENTIALS
       THEN /\ Fatal(Err("credentialsMissing"))
            /\ UNCHANGED <<token, tokenSent, apiVars>>
       ELSE /\ tokenSent' = tokenSent + 1
            /\ IF out = "ok"
               THEN /\ token' = tokenSent + 1
                    /\ pc' = "createBase"
                    /\ response' = response
                    /\ StartCall("base", 0, DefaultRetries, tokenSent + 1)
               ELSE /\ Fatal(Err(out))
                    /\ UNCHANGED <<token, apiVars>>
    /\ UNCHANGED <<prompt, env, aiVars, schema, baseState, loopVars, results,
                   directVars, parseVars, pairVars, fieldVars, issued, created,
                   fieldsSeen, made, batches, tstate>>

Count(details, status) ==
    Cardinality({k \in 1..Len(details) : details[k].status = status})

NewBaseUrl == "baseUrl"

\* (variant) the run is reported as failed when no table could be created
Response200_NeedsATable(details) ==
    IF Count(details, "Success") = 0
    THEN [status |-> 500, success |-> FALSE, error |-> "noTableCreated"]
    ELSE [status |-> 200, success |-> TRUE, baseName |-> schema.baseName,
          baseUrl |-> NewBaseUrl,
          summary |-> [totalTables |-> Len(tables),
                       successfulTables |-> Count(details, "Success"),
                       failedTables |-> Count(details, "Failed")],
          details |-> details]

\* lines 135-148
Response200(details) ==
    [status |-> 200, success |-> TRUE, baseName |-> schema.baseName,
     baseUrl |-> NewBaseUrl,
     summary |-> [totalTables |-> Len(tables),
                  successfulTables |-> Count(details, "Success"),
                  failedTables |-> Count(details, "Failed")],
     details |-> details]

\* the loop header of line 63: the next table's creation call is made, or the
\* loop ends and the response of lines 135-148 is returned
LoopTo(k, details) ==
    /\ f' = 0
    /\ fieldsCreated' = 0
    /\ batchStart' = 0
    /\ allResults' = 0
    /\ rowCount' = 0
    /\ IF k <= Len(tables)
       THEN /\ i' = k
            /\ pc' = "createTable"
            /\ response' = response
            /\ StartCall("table", k, DefaultRetries, token)
       ELSE /\ i' = i
            /\ pc' = "done"
            /\ response' = Response200(details)
            /\ IdleCall

\* (variant) the table's catch block logs the failure without recording it
FinishTable_SilentCatch(entry) ==
    /\ results' = IF entry.status = "Failed" THEN results ELSE Append(results, entry)
    /\ tstate' = [tstate EXCEPT ![i] = entry.status]
    /\ LoopTo(i + 1, IF entry.status = "Failed" THEN results ELSE Append(results, entry))

\* results.push of lines 117-123 or 127-131, then the next iteration
FinishTable(entry) ==
    /\ results' = Append(results, entry)
    /\ tstate' = [tstate EXCEPT ![i] = entry.status]
    /\ LoopTo(i + 1, Append(results, entry))

SuccessEntry(n, m) ==
    [table |-> i, status |-> "Success", fieldsCreated |-> n, recordsAdded |-> m]

FailedEntry(e) == [table |-> i, status |-> "Failed", error |-> e.kind]

\* what the caller catches when apiCall did not return data: the error thrown,
\* or the TypeError of reading `.data` of undefined
Caught(res) == IF res.r = "thrown" THEN res.err ELSE Err("typeError")

\* lines 56-63: createBaseApp returned the new base
BaseCreated ==
    /\ baseState' = "created"
    /\ results' = <<>>
    /\ LoopTo(1, <<>>)
    /\ UNCHANGED <<created, fieldsSeen, made, batches, tstate>>

\* (variant) the failure of createBaseApp is swallowed and the loop is entered
BaseFailed_GoOn(res) ==
    /\ baseState' = "failed"
    /\ results' = <<>>
    /\ LoopTo(1, <<>>)
    /\ UNCHANGED <<created, fieldsSeen, made, batches, tstate>>

\* createBaseApp threw, or returned undefined so that line 57 throws: line 150
BaseFailed(res) ==
    /\ baseState' = "failed"
    /\ Fatal(Caught(res))
    /\ IdleCall
    /\ UNCHANGED <<loopVars, results, created,
                   fieldsSeen, made, batches, tstate>>

\* lines 71-77: the table exists; the field loop is entered, which throws
\* when table.fields is not iterable
TableCreated ==
    /\ created' = created \cup {i}
    /\ IF tables[i].hasFields
       THEN /\ pc' = "fields"
            /\ f' = 1
            /\ fieldsCreated' = 0
            /\ tstate' = [tstate EXCEPT ![i] = "TableCreated"]
            /\ IdleCall
            /\ UNCHANGED <<i, batchStart, allResults, rowCount, results, response>>
       ELSE FinishTable(FailedEntry(Err("typeError")))
    /\ UNCHANGED <<baseState, fieldsSeen, made, batches>>

\* (variant) no try/catch around a table: its failure reaches the outer catch
TableFailed_Rethrow(res) ==
    /\ Fatal(Caught(res))
    /\ IdleCall
    /\ UNCHANGED <<baseState, loopVars, results, created,
                   fieldsSeen, made, batches, tstate>>

\* (variant) the failure of the creation call is swallowed and the field loop
\* is entered
TableFailed_EnterFields(res) ==
    /\ pc' = "fields"
    /\ f' = 1
    /\ fieldsCreated' = 0
    /\ tstate' = [tstate EXCEPT ![i] = "TableCreated"]
    /\ IdleCall
    /\ UNCHANGED <<baseState, i, batchStart, allResults, rowCount, results,
                   response, created, fieldsSeen, made, batches>>

\* lines 125-132: the creation call threw, or returned undefined (line 71 throws)
TableFailed(res) ==
    /\ FinishTable(FailedEntry(Caught(res)))
    /\ UNCHANGED <<baseState, created, fieldsSeen, made, batches>>

\* one more iteration of the field loop of table i is over
OneMoreField == [fieldsSeen EXCEPT ![i] = @ + 1]

\* lines 93-94: the field call returned (whatever it returned)
FieldReturned(res) ==
    /\ fieldsCreated' = fieldsCreated + 1
    /\ fieldsSeen' = OneMoreField
    /\ made' = IF res.r = "data" THEN [made EXCEPT ![i] = @ \cup {f}] ELSE made
    /\ batches' = batches
    /\ f' = f + 1
    /\ pc' = "fields"
    /\ IdleCall
    /\ UNCHANGED <<baseState, i, batchStart, allResults, rowCount, results,
                   response, created, tstate>>

\* (variant) no try/catch around a field: its failure reaches the table's catch
FieldThrown_AbortTable(res) ==
    /\ FinishTable(FailedEntry(res.err))
    /\ UNCHANGED <<baseState, created, fieldsSeen, made, batches>>

\* (variant) a field whose call threw is tried again
FieldThrown_TryAgain(res) ==
    /\ pc' = "fields"
    /\ IdleCall
    /\ UNCHANGED <<baseState, i, f, fieldsCreated, batchStart, allResults, rowCount,
                   results, response, created, fieldsSeen, made, batches, tstate>>

\* lines 95-97: the field call threw
FieldThrown(res) ==
    /\ fieldsSeen' = OneMoreField
    /\ UNCHANGED <<made, batches>>
    /\ f' = f + 1
    /\ pc' = "fields"
    /\ IdleCall
    /\ UNCHANGED <<baseState, i, fieldsCreated, batchStart, allResults, rowCount,
                   results, response, created, tstate>>

\* the batch of the rows from `from` on: slice(i, i + batchSize), line 1291
BatchRows(from, n) == Min(BatchSize, n - from)

\* one more batch call of table i, of `size` rows
OneMoreBatch(b, size) ==
    [b EXCEPT ![i] = [calls |-> @.calls + 1, rows |-> @.rows + size,
                            landed |-> @.landed,
                            largest |-> IF size > @.largest THEN size ELSE @.largest]]

\* (variant) a batch that fails ends the loop over the batches
BatchDone_StopAtFailure(res) ==
    /\ LET got == IF res.r = "data" THEN BatchRows(batchStart, rowCount) ELSE 0
           stored == [batches EXCEPT ![i].landed = @ + got]
       IN IF batchStart + BatchSize < rowCount /\ res.r = "data"
          THEN /\ allResults' = allResults + got
               /\ batchStart' = batchStart + BatchSize
               /\ batches' = OneMoreBatch(stored, BatchRows(batchStart + BatchSize, rowCount))
               /\ StartCall("record", i, DefaultRetries, token)
               /\ UNCHANGED <<pc, i, f, fieldsCreated, rowCount, results, response,
                              tstate>>
          ELSE /\ batches' = stored
               /\ FinishTable(SuccessEntry(fieldsCreated, allResults + got))
    /\ UNCHANGED <<baseState, created, fieldsSeen, made>>

\* lines 1290-1308 and 111-123: a batch call is over (result.data of undefined
\* throws into the batch's catch); the next batch is sent, or the table is
\* recorded
BatchDone(res) ==
    /\ LET got == IF res.r = "data" THEN BatchRows(batchStart, rowCount) ELSE 0
           stored == [batches EXCEPT ![i].landed = @ + got]
           size == BatchRows(batchStart + BatchSize, rowCount)
       IN IF batchStart + BatchSize < rowCount
          THEN /\ allResults' = allResults + got
               /\ batchStart' = batchStart + BatchSize
               /\ batches' = OneMoreBatch(stored, size)
               /\ StartCall("record", i, DefaultRetries, token)
               /\ UNCHANGED <<pc, i, f, fieldsCreated, rowCount, results, response,
                              tstate>>
          ELSE /\ batches' = stored
               /\ FinishTable(SuccessEntry(fieldsCreated, allResults + got))
    /\ UNCHANGED <<baseState, created, fieldsSeen, made>>

\* a direct call of apiCall is over
DirectCallDone(res) ==
    /\ apiPc' = IF res.r = "thrown" THEN "thrown" ELSE "returned"
    /\ apiRet' = IF res.r = "thrown" THEN "none" ELSE res.r
    /\ apiErr' = res.err
    /\ waits' = Slept(res)
    /\ sent' = sent + 1
    /\ UNCHANGED <<call, pc, baseState, loopVars, results, response, created,
                   fieldsSeen, made, batches, tstate>>

\* the code that awaits the apiCall goes on with its result
Resume(res) ==
    CASE pc = "createBase" -> IF res.r = "data" THEN BaseCreated ELSE BaseFailed(res)
      [] pc = "createTable" -> IF res.r = "data" THEN TableCreated ELSE TableFailed(res)
      [] pc = "createField" -> IF res.r = "thrown" THEN FieldThrown(res) ELSE FieldReturned(res)
      [] pc = "batch" -> BatchDone(res)
      [] OTHER -> DirectCallDone(res)

\* The pauses of the handler after a call that ended with `res`: line 73
\* after the table call returned its data, line 94 after a field call that
\* did not throw, lines 1298-1300 after a batch that returned its data when
\* more rows are left.
SleepsAfter(res) ==
    CASE pc = "createTable" -> res.r = "data"
      [] pc = "createField" -> res.r # "thrown"
      [] pc = "batch" -> res.r = "data" /\ batchStart + BatchSize < rowCount
      [] OTHER -> FALSE

\* Whether the workspace carried out a request that was answered with `out`:
\* it did when it answered with success, it did not when it refused the
\* request, and either is possible when the answer was lost or an HTTP error
\* came back.
CarriedOut(out) ==
    CASE out = "ok" -> {TRUE}
      [] out \in {"networkError", "httpError"} -> {TRUE, FALSE}
      [] OTHER -> {FALSE}

\* One iteration of apiCall's loop: a request is sent and answered with `out`.
\* When the call ends, the awaiting code runs on to its next await.
ApiAttempt(out) ==
    /\ apiPc = "fetch"
    /\ LoopCondition(call.attempt, call.retries)
    /\ \E done \in CarriedOut(out) :
          applied' = IF pc = "apiCall" /\ done THEN applied + 1 ELSE applied
    /\ LET res == AttemptResult(out, call.attempt, call.retries)
       IN paused' = (res.trigger # "none" \/ (res.r # "retry" /\ SleepsAfter(res)))
    /\ issued' = IF call.table > 0
                 THEN [issued EXCEPT ![call.table] = @ \cup {call.kind}]
                 ELSE issued
    /\ LET res == AttemptResult(out, call.attempt, call.retries)
       IN IF res.r = "retry"
          THEN /\ sent' = sent + 1
               /\ waits' = Slept(res)
               /\ call' = [call EXCEPT !.attempt = @ + 1]
               /\ gotOk' = (out = "ok")
               /\ lastAnswer' = IF pc = "apiCall" THEN out ELSE lastAnswer
               /\ UNCHANGED <<apiPc, apiRet, apiErr, pc, baseState, loopVars,
                              results, response, created,
                              fieldsSeen, made, batches, tstate>>
          ELSE /\ Resume(res)
               /\ gotOk' = (pc = "apiCall" /\ out = "ok")
               /\ lastAnswer' = IF pc = "apiCall" THEN out ELSE lastAnswer
    /\ UNCHANGED <<prompt, env, aiVars, schema, token, tokenSent, parseVars, pairVars, fieldVars>>

\* (variant) the creation call is started and not awaited: the loop goes on
\* to the next field while the call is under way
FieldStep_NoAwait ==
    /\ pc = "fields"
    /\ f <= Len(tables[i].fields)
    /\ LET field == tables[i].fields[f]
           fieldPayload == getFieldProperty(field.type, field.options)
       IN IF fieldPayload.r \in {"payload", "inherited"}
          THEN StartCall("field", i, DefaultRetries, token)
          ELSE UNCHANGED apiVars
    /\ pc' = pc
    /\ f' = f + 1
    /\ fieldsSeen' = OneMoreField
    /\ UNCHANGED <<prompt, env, aiVars, schema, token, tokenSent, baseState, i,
                   fieldsCreated, batchStart, allResults, rowCount, results,
                   response, directVars, parseVars, pairVars, fieldVars, issued, created,
                   made, batches, tstate>>

\* lines 77-92: one field of the loop, up to its creation call
FieldStep ==
    /\ pc = "fields"
    /\ f <= Len(tables[i].fields)
    /\ LET field == tables[i].fields[f]
           fieldPayload == getFieldProperty(field.type, field.options)
       IN IF fieldPayload.r \in {"payload", "inherited"}
          THEN /\ pc' = "createField"
               /\ f' = f
               /\ StartCall("field", i, DefaultRetries, token)
               /\ fieldsSeen' = fieldsSeen
          ELSE /\ pc' = pc
               /\ f' = f + 1
               /\ fieldsSeen' = OneMoreField
               /\ UNCHANGED apiVars
    /\ UNCHANGED <<prompt, env, aiVars, schema, token, tokenSent, baseState, i,
                   fieldsCreated, batchStart, allResults, rowCount, results,
                   response, directVars, parseVars, pairVars, fieldVars, issued, created,
                   made, batches, tstate>>

\* lines 100-115 and 1263-1293: the field loop is over; the rows are built and
\* the first batch is sent, or the table is recorded without rows
SampleStep ==
    /\ pc = "fields"
    /\ f > Len(tables[i].fields)
    /\ LET table == tables[i]
           built == IF table.sampleDataCount > 0 /\ fieldsCreated > 0
                    THEN RowsBuilt(table.fields, Min(table.sampleDataCount, MaxSampleRows))
                    ELSE [r |-> "skipped"]
       IN IF built.r = "rows" /\ built.n > 0
          THEN /\ rowCount' = built.n
               /\ batchStart' = 0
               /\ allResults' = 0
               /\ pc' = "batch"
               /\ tstate' = [tstate EXCEPT ![i] = "FieldsBuilt"]
               /\ batches' = OneMoreBatch(batches, BatchRows(0, built.n))
               /\ StartCall("record", i, DefaultRetries, token)
               /\ UNCHANGED <<i, f, fieldsCreated, results, response>>
          ELSE /\ batches' = batches
               /\ FinishTable(SuccessEntry(fieldsCreated, 0))
    /\ UNCHANGED <<prompt, env, aiVars, schema, token, tokenSent, baseState,
                   directVars, parseVars, pairVars, fieldVars, issued, created, fieldsSeen,
                   made>>

----------------------------------------------------------------------------
(* Specifications *)

IdleInit ==
    /\ aiAttempt = 1
    /\ aiLastError = NoErr
    /\ aiWaits = <<>>
    /\ aiSent = 0
    /\ aiRet = NoSchema
    /\ aiErr = NoErr
    /\ aiParsed = NoSchema
    /\ aiGotValid = FALSE
    /\ schema = NoSchema
    /\ token = 0
    /\ tokenSent = 0
    /\ baseState = "none"
    /\ i = 0
    /\ f = 0
    /\ fieldsCreated = 0
    /\ batchStart = 0
    /\ allResults = 0
    /\ rowCount = 0
    /\ results = <<>>
    /\ response = NoResponse
    /\ apiRet = "none"
    /\ apiErr = NoErr
    /\ waits = <<>>
    /\ sent = 0
    /\ gotOk = FALSE
    /\ lastAnswer = "none"
    /\ applied = 0
    /\ paused = FALSE
    /\ issued = <<>>
    /\ created = {}
    /\ fieldsSeen = <<>>
    /\ made = <<>>
    /\ batches = <<>>
    /\ tstate = <<>>

FieldIdle ==
    /\ runs = <<>>
    /\ world = NoWorld
    /\ fieldIn = NoField
    /\ payload = NotMapped
    /\ dummy = NotGenerated

ParseIdle ==
    /\ FieldIdle
    /\ answer = NoAnswer
    /\ parsePc = "idle"
    /\ parsed = NotParsed("none")

\* a request to POST /api/create arrives
Init ==
    /\ ParseIdle
    /\ prompt \in Prompts
    /\ env \in Envs
    /\ pc = "start"
    /\ aiPc = "idle"
    /\ call = NoCall
    /\ apiPc = "idle"
    /\ IdleInit

Next ==
    \/ Validate
    \/ AiEnter
    \/ \E out \in AiOutcomes, parsedData \in ParsedObjects : AiAttempt(out, parsedData)
    \/ \E out \in TokenOutcomes : GetToken(out)
    \/ \E out \in RunOutcomes : ApiAttempt(out)
    \/ FieldStep
    \/ SampleStep

Spec == Init /\ [][Next]_vars

\* The objects drawn where the run is followed to its end: every table shape
\* as a schema of one table, one schema of two tables with rows for one and
\* for two batches, the schema with too many tables, and the objects that
\* fail the checks.
LiveObjects ==
    { [baseName |-> "base", tablesKind |-> "array", tables |-> <<t>>] :
        t \in TableShapes \cup MoreTableShapes }
    \cup { [baseName |-> "base", tablesKind |-> "array",
            tables |-> << Table(TRUE, <<Field("text"), Field("checkbox")>>, 12),
                          Table(TRUE, <<Field("text"), Field("member")>>, 25) >>] }
    \cup {OversizedSchema}
    \cup BadObjects

LiveNext ==
    \/ Validate
    \/ AiEnter
    \/ \E out \in AiOutcomes, parsedData \in LiveObjects : AiAttempt(out, parsedData)
    \/ \E out \in TokenOutcomes : GetToken(out)
    \/ \E out \in ApiOutcomes : ApiAttempt(out)
    \/ FieldStep
    \/ SampleStep

\* The run when every outbound request is answered or fails in the end and
\* the runtime resumes the handler after each await: a step that can be taken
\* is taken.
LiveSpec == Init /\ [][LiveNext]_vars /\ WF_vars(LiveNext)

\* apiCall on its own, with any value of its `retries` option
ApiInit ==
    /\ ParseIdle
    /\ prompt = [present |-> TRUE, len |-> MaxPromptLen, trimLen |-> MaxPromptLen]
    /\ env = [GEMINI_API_KEY |-> TRUE, LARK_CREDENTIALS |-> TRUE]
    /\ pc = "apiCall"
    /\ aiPc = "idle"
    /\ \E r \in 1..MaxRetries :
          call = [kind |-> "direct", table |-> 0, attempt |-> 1, retries |-> r,
                  token |-> 0]
    /\ apiPc = "fetch"
    /\ IdleInit

ApiNext == \E out \in ApiOutcomes : ApiAttempt(out)

ApiSpec == ApiInit /\ [][ApiNext]_vars

\* the loop body of lines 63-133 for one table: the base exists and the
\* table's creation call has been started
TableInit ==
    /\ ParseIdle
    /\ prompt = [present |-> TRUE, len |-> MaxPromptLen, trimLen |-> MaxPromptLen]
    /\ env = [GEMINI_API_KEY |-> TRUE, LARK_CREDENTIALS |-> TRUE]
    /\ pc = "createTable"
    /\ aiPc = "idle"
    /\ aiAttempt = 0
    /\ aiLastError = NoErr
    /\ aiWaits = <<>>
    /\ aiSent = 0
    /\ aiRet = NoSchema
    /\ aiErr = NoErr
    /\ aiParsed = NoSchema
    /\ aiGotValid = FALSE
    /\ \E t \in TableShapes \cup MoreTableShapes :
          schema = [baseName |-> "base", tablesKind |-> "array", tables |-> <<t>>]
    /\ token = 1
    /\ tokenSent = 1
    /\ baseState = "created"
    /\ i = 1
    /\ f = 0
    /\ fieldsCreated = 0
    /\ batchStart = 0
    /\ allResults = 0
    /\ rowCount = 0
    /\ results = <<>>
    /\ response = NoResponse
    /\ call = [kind |-> "table", table |-> 1, attempt |-> 1,
               retries |-> DefaultRetries, token |-> 1]
    /\ apiPc = "fetch"
    /\ apiRet = "none"
    /\ apiErr = NoErr
    /\ waits = <<>>
    /\ sent = 0
    /\ gotOk = FALSE
    /\ lastAnswer = "none"
    /\ applied = 0
    /\ paused = FALSE
    /\ issued = <<{}>>
    /\ created = {}
    /\ fieldsSeen = <<0>>
    /\ made = <<{}>>
    /\ batches = <<NoBatches>>
    /\ tstate = <<"Pending">>

TableNext ==
    \/ \E out \in ApiOutcomes : ApiAttempt(out)
    \/ FieldStep
    \/ SampleStep

TableSpec == TableInit /\ [][TableNext]_vars

\* generateSchemaFromAI on its own, with or without an API key
AiInit ==
    /\ ParseIdle
    /\ prompt = [present |-> TRUE, len |-> MaxPromptLen, trimLen |-> MaxPromptLen]
    /\ env \in Envs
    /\ pc = "generateSchemaFromAI"
    /\ aiPc = "entry"
    /\ call = NoCall
    /\ apiPc = "idle"
    /\ IdleInit

AiNext ==
    \/ AiEnter
    \/ \E out \in AiOutcomes, parsedData \in ParsedObjects : AiAttempt(out, parsedData)

AiSpec == AiInit /\ [][AiNext]_vars

\* Two runs of handleApiPost side by side, from the token on, each for a
\* schema of one table with one field and no rows. Nothing is declared at
\* module level but the constant LARK_API_URL (line 5): a run's state is the
\* locals of its own calls of handleApiPost and apiCall.
RunIds == {1, 2}

\* the locals of a run that is about to ask for its token
StartRun ==
    [pc |-> "getToken", token |-> 0, appToken |-> 0, attempt |-> 1,
     fieldsCreated |-> 0, results |-> <<>>, status |-> 0]

PairInit ==
    /\ prompt = [present |-> TRUE, len |-> MaxPromptLen, trimLen |-> MaxPromptLen]
    /\ env = [GEMINI_API_KEY |-> TRUE, LARK_CREDENTIALS |-> TRUE]
    /\ pc = "pair"
    /\ aiPc = "idle"
    /\ call = NoCall
    /\ apiPc = "idle"
    /\ IdleInit
    /\ answer = NoAnswer
    /\ parsePc = "idle"
    /\ parsed = NotParsed("none")
    /\ fieldIn = NoField
    /\ payload = NotMapped
    /\ dummy = NotGenerated
    /\ runs = [r \in RunIds |-> StartRun]
    /\ world = NoWorld

\* (variant) the token is kept at module level: a run takes the token another
\* run has got
TokenFor_Cached(r) ==
    IF \E q \in RunIds \ {r} : runs[q].token # 0
    THEN runs[CHOOSE q \in RunIds \ {r} : runs[q].token # 0].token
    ELSE Len(world.tokenLog) + 1

\* line 1253: the token that the run's own request returned (a token is named
\* by the number of the request that returned it)
TokenFor(r) == Len(world.tokenLog) + 1

\* the run returns: line 135 (status 200) or line 163 (status 500)
RunDone(run, status, details) ==
    [run EXCEPT !.pc = "done", !.status = status, !.results = details]

\* lines 54 and 1230-1253: run r asks for its token
PairGetToken(r, out) ==
    /\ pc = "pair"
    /\ runs[r].pc = "getToken"
    /\ world' = [world EXCEPT !.tokenLog = Append(@, r)]
    /\ runs' = [runs EXCEPT ![r] =
                   IF out = "ok"
                   THEN [@ EXCEPT !.pc = "createBase", !.token = TokenFor(r)]
                   ELSE RunDone(@, 500, <<>>)]

\* the code of run r that awaits apiCall goes on with its result: lines 56-62
\* (base), 67-73 (table), 85-97 and 117-131 (field, then the table's entry)
PairResume(r, res) ==
    LET run == runs[r] IN
    CASE run.pc = "createBase" ->
           IF res.r = "data"
           THEN [run EXCEPT !.pc = "createTable", !.attempt = 1,
                            !.appToken = Len(world.baseLog) + 1]
           ELSE RunDone(run, 500, <<>>)
      [] run.pc = "createTable" ->
           IF res.r = "data"
           THEN [run EXCEPT !.pc = "createField", !.attempt = 1]
           ELSE RunDone(run, 200, <<[status |-> "Failed"]>>)
      [] run.pc = "createField" ->
           LET n == IF res.r = "thrown" THEN run.fieldsCreated ELSE run.fieldsCreated + 1
           IN RunDone([run EXCEPT !.fieldsCreated = n], 200,
                      <<[status |-> "Success", fieldsCreated |-> n]>>)

\* one iteration of apiCall's loop in run r, answered with `out`
PairApiAttempt(r, out) ==
    /\ pc = "pair"
    /\ runs[r].pc \in {"createBase", "createTable", "createField"}
    /\ LET res == AttemptResult(out, runs[r].attempt, DefaultRetries)
       IN /\ runs' = [runs EXCEPT ![r] =
                        IF res.r = "retry"
                        THEN [@ EXCEPT !.attempt = @ + 1]
                        ELSE PairResume(r, res)]
          /\ world' = IF runs[r].pc = "createBase" /\ res.r = "data"
                      THEN [world EXCEPT !.baseLog = Append(@, r)]
                      ELSE world

PairNext ==
    /\ \/ \E r \in RunIds, out \in TokenOutcomes : PairGetToken(r, out)
       \/ \E r \in RunIds, out \in RunOutcomes : PairApiAttempt(r, out)
    /\ UNCHANGED <<prompt, env, pc, aiVars, schema, token, tokenSent, baseState,
                   loopVars, results, response, apiVars, directVars, issued,
                   created, fieldsSeen, made, batches, tstate, parseVars,
                   fieldVars>>

PairSpec == PairInit /\ [][PairNext]_vars

\* The endpoint onRequestPost of src/functions/api/create-lark-base.js, from
\* the creation of the base on. Its apiCall (lines 129-141) sends one request
\* and throws when the answer has a non-zero code or cannot be read.
PostOutcomes == {"ok", "codeOther", "networkError"}

\* its getFieldProperty, line 195: `map[type.toLowerCase()]`, which throws
\* for a type that is no string and is undefined for a name outside the map
Post_getFieldProperty(type) ==
    IF type = NoType THEN "throw"
    ELSE IF toLowerCase(type) \in DOMAIN typeMap \cup InheritedKeys THEN "payload"
    ELSE "undefined"

\* its generateDummyData, lines 198-215, for a field without options: null
\* outside the switch and for single_select
Post_generateDummyDataIsNull(type) ==
    toLowerCase(type) \notin (DummyTypes \ {"multi_select", "single_select"})

\* its addSampleRecords, lines 161-171: the rows that are submitted
Post_RowsBuilt(fields, count) ==
    IF \E j \in 1..Len(fields) : ~Post_generateDummyDataIsNull(fields[j].type)
    THEN count
    ELSE 0

\* what the endpoint has reached: its place, loop indexes, results, response
PostState(p, k, j, res, resp) ==
    [pc |-> p, i |-> k, f |-> j, results |-> res, response |-> resp]

\* line 50: the entry pushed for a table that went through
PostEntry(k, m) == [table |-> k, status |-> "Success", recordsAdded |-> m]

\* lines 53-58
PostResponse200(res) ==
    [status |-> 200, baseName |-> schema.baseName, baseUrl |-> NewBaseUrl,
     details |-> res]

\* (variant) a failed call is made again
PostFailed_Retry(k, j, res, e) == PostState(pc, k, j, res, NoResponse)

\* the catch of lines 60-63: whatever was thrown ends the run
PostFailed(k, j, res, e) ==
    PostState("done", k, j, res, [status |-> 500, error |-> e.kind])

\* The endpoint runs on from field j of table k (j = 0: the table is not yet
\* created) to its next call, or to its return: lines 26-58.
RECURSIVE PostRun(_, _, _)
PostRun(k, j, res) ==
    IF k > Len(tables) THEN PostState("done", Len(tables), 0, res, PostResponse200(res))
    ELSE IF j = 0 THEN PostState("postTable", k, 0, res, NoResponse)
    ELSE IF ~tables[k].hasFields THEN PostFailed(k, j, res, Err("typeError"))
    ELSE IF j <= Len(tables[k].fields)
    THEN LET fieldPayload == Post_getFieldProperty(tables[k].fields[j].type)
         IN CASE fieldPayload = "throw" -> PostFailed(k, j, res, Err("typeError"))
              [] fieldPayload = "undefined" -> PostRun(k, j + 1, res)
              [] OTHER -> PostState("postField", k, j, res, NoResponse)
    ELSE IF tables[k].sampleDataCount > 0
            /\ Post_RowsBuilt(tables[k].fields, tables[k].sampleDataCount) > 0
    THEN PostState("postRecords", k, j, res, NoResponse)
    ELSE PostRun(k + 1, 0, Append(res, PostEntry(k, 0)))

\* One call of the endpoint is answered with `out`, and the endpoint runs on
\* to its next call or to its return.
PostCall(out) ==
    /\ pc \in {"postBase", "postTable", "postField", "postRecords"}
    /\ lastAnswer' = out
    /\ issued' = IF pc = "postBase" THEN issued
                 ELSE [issued EXCEPT ![i] = @ \cup {pc}]
    /\ baseState' = IF pc = "postBase" /\ out = "ok" THEN "created" ELSE baseState
    /\ created' = IF pc = "postTable" /\ out = "ok" THEN created \cup {i} ELSE created
    /\ LET next ==
             IF out # "ok" THEN PostFailed(i, f, results, Err(out))
             ELSE CASE pc = "postBase" -> PostRun(1, 0, <<>>)
                    [] pc = "postTable" -> PostRun(i, 1, results)
                    [] pc = "postField" -> PostRun(i, f + 1, results)
                    [] pc = "postRecords" ->
                         PostRun(i + 1, 0,
                                 Append(results,
                                        PostEntry(i, Post_RowsBuilt(tables[i].fields,
                                                                    tables[i].sampleDataCount))))
       IN /\ pc' = next.pc
          /\ i' = next.i
          /\ f' = next.f
          /\ results' = next.results
          /\ response' = next.response
    /\ UNCHANGED <<prompt, env, aiVars, schema, token, tokenSent, fieldsCreated,
                   batchStart, allResults, rowCount, apiVars, gotOk, applied, paused,
                   fieldsSeen, made, batches, tstate, parseVars, fieldVars, pairVars>>

\* lines 17-20: the token is there and createBaseApp is called
PostInit ==
    /\ ParseIdle
    /\ prompt = [present |-> TRUE, len |-> MaxPromptLen, trimLen |-> MaxPromptLen]
    /\ env = [GEMINI_API_KEY |-> TRUE, LARK_CREDENTIALS |-> TRUE]
    /\ pc = "postBase"
    /\ aiPc = "idle"
    /\ aiAttempt = 0
    /\ aiLastError = NoErr
    /\ aiWaits = <<>>
    /\ aiSent = 0
    /\ aiRet = NoSchema
    /\ aiErr = NoErr
    /\ aiParsed = NoSchema
    /\ aiGotValid = FALSE
    /\ \E ts \in SeqsUpTo(TableShapes \cup MoreTableShapes, MaxTables) :
          /\ schema = [baseName |-> "base", tablesKind |-> "array", tables |-> ts]
          /\ issued = [k \in 1..Len(ts) |-> {}]
    /\ token = 1
    /\ tokenSent = 1
    /\ baseState = "none"
    /\ i = 0
    /\ f = 0
    /\ fieldsCreated = 0
    /\ batchStart = 0
    /\ allResults = 0
    /\ rowCount = 0
    /\ results = <<>>
    /\ response = NoResponse
    /\ call = NoCall
    /\ apiPc = "idle"
    /\ apiRet = "none"
    /\ apiErr = NoErr
    /\ waits = <<>>
    /\ sent = 0
    /\ gotOk = FALSE
    /\ lastAnswer = "none"
    /\ applied = 0
    /\ paused = FALSE
    /\ created = {}
    /\ fieldsSeen = <<>>
    /\ made = <<>>
    /\ batches = <<>>
    /\ tstate = <<>>

PostNext == \E out \in PostOutcomes : PostCall(out)

PostSpec == PostInit /\ [][PostNext]_vars

\* getFieldProperty and generateDummyData on their own, for one field and
\* one row index
FieldInit ==
    /\ prompt = [present |-> TRUE, len |-> MaxPromptLen, trimLen |-> MaxPromptLen]
    /\ env = [GEMINI_API_KEY |-> TRUE, LARK_CREDENTIALS |-> TRUE]
    /\ pc = "field"
    /\ aiPc = "idle"
    /\ call = NoCall
    /\ apiPc = "idle"
    /\ IdleInit
    /\ answer = NoAnswer
    /\ parsePc = "idle"
    /\ parsed = NotParsed("none")
    /\ runs = <<>>
    /\ world = NoWorld
    /\ fieldIn \in [type : TypeNames, options : OptionStrings, index : 0..MaxIndex]
    /\ payload = NotMapped
    /\ dummy = NotGenerated

\* getFieldProperty(field.type, field.options) is called
MapField ==
    /\ pc = "field"
    /\ payload = NotMapped
    /\ payload' = getFieldProperty(fieldIn.type, fieldIn.options)
    /\ UNCHANGED <<prompt, env, pc, aiVars, schema, token, tokenSent, baseState,
                   loopVars, results, response, apiVars, directVars, issued,
                   created, fieldsSeen, made, batches, tstate, parseVars, pairVars, fieldIn,
                   dummy>>

\* generateDummyData(field.type, field.options, index) is called
Synthesize ==
    /\ pc = "field"
    /\ dummy = NotGenerated
    /\ \E randomDays \in RandomDays :
          dummy' = generateDummyData(fieldIn.type, fieldIn.options, fieldIn.index,
                                     randomDays)
    /\ UNCHANGED <<prompt, env, pc, aiVars, schema, token, tokenSent, baseState,
                   loopVars, results, response, apiVars, directVars, issued,
                   created, fieldsSeen, made, batches, tstate, parseVars, pairVars, fieldIn,
                   payload>>

FieldNext == MapField \/ Synthesize

FieldSpec == FieldInit /\ [][FieldNext]_vars

\* the parsing of one answer on its own
ParseInit ==
    /\ FieldIdle
    /\ prompt = [present |-> TRUE, len |-> MaxPromptLen, trimLen |-> MaxPromptLen]
    /\ env = [GEMINI_API_KEY |-> TRUE, LARK_CREDENTIALS |-> TRUE]
    /\ pc = "parse"
    /\ aiPc = "idle"
    /\ call = NoCall
    /\ apiPc = "idle"
    /\ IdleInit
    /\ answer \in Answers
    /\ parsePc = "text"
    /\ parsed = NotParsed("none")

\* lines 1118-1149 applied to the text of the answer
ParseText ==
    /\ parsePc = "text"
    /\ parsed' = parseRawText(RawText(answer))
    /\ parsePc' = "done"
    /\ UNCHANGED <<prompt, env, pc, aiVars, schema, token, tokenSent, baseState,
                   loopVars, results, response, apiVars, directVars, issued,
                   created,
                   fieldsSeen, made, batches, tstate, answer, fieldVars,
                   pairVars>>

ParseNext == ParseText

ParseSpec == ParseInit /\ [][ParseNext]_vars

----------------------------------------------------------------------------
(* Properties of the provisioning run (Spec) *)

Finished(k) == tstate[k] \in {"Success", "Failed"}

\* C1: once the base is created every table of the schema is attempted,
\* whatever happened to the tables before it, and the run ends with one entry
\* of `details` per table, in the order of the schema.
C1_EveryTableAttempted ==
    (pc = "done" /\ baseState = "created") =>
        /\ response.status = 200
        /\ Len(response.details) = Len(tables)
        /\ \A k \in 1..Len(tables) :
              /\ "table" \in issued[k]
              /\ response.details[k].table = k

\* a run in which the first table failed and the second was created
C1_Witness ==
    /\ pc = "done"
    /\ baseState = "created"
    /\ Len(tables) >= 2
    /\ results[1].status = "Failed"
    /\ 1 \notin created
    /\ results[2].status = "Success"

\* C2: when the base-creation call fails the run is over: no request for a
\* table, a field or records is ever sent, and the response is 500 with
\* success false.
C2_BaseFailureAborts ==
    baseState = "failed" =>
        /\ \A k \in DOMAIN issued : issued[k] = {}
        /\ pc = "done"
        /\ response.status = 500
        /\ response.success = FALSE

\* the base-creation call was rate limited on all its attempts
C2_Witness ==
    /\ baseState = "failed"
    /\ pc = "done"
    /\ response.error = "typeError"
    /\ Len(tables) >= 1

\* C3: the run answers 200 exactly when the base was created, with success
\* true and the base's name and URL, also when every table failed.
C3_OkIffBaseCreated ==
    pc = "done" =>
        /\ (baseState = "created") <=> (response.status = 200)
        /\ response.status = 200 =>
              /\ response.success = TRUE
              /\ response.baseName = schema.baseName
              /\ response.baseName # ""
              /\ response.baseUrl = NewBaseUrl

\* a 200 response all of whose tables failed
C3_Witness ==
    /\ pc = "done"
    /\ response.status = 200
    /\ Len(response.details) = MaxTables
    /\ \A k \in 1..Len(response.details) : response.details[k].status = "Failed"

\* C4: in a 200 response totalTables is the number of tables of the schema
\* and of entries of details, every entry is Success or Failed, and
\* successfulTables + failedTables = totalTables.
C4_SummaryConsistent ==
    response.status = 200 =>
        LET summary == response.summary
            details == response.details
        IN /\ summary.totalTables = Len(tables)
           /\ summary.totalTables = Len(details)
           /\ \A k \in 1..Len(details) : details[k].status \in {"Success", "Failed"}
           /\ summary.successfulTables + summary.failedTables = summary.totalTables

\* a 200 response with a table of each status
C4_Witness ==
    /\ response.status = 200
    /\ response.summary.successfulTables >= 1
    /\ response.summary.failedTables >= 1

\* C5: a recorded table is Success exactly when its creation call succeeded
\* (Failed only when the creation call itself failed).
C5_StatusFollowsCreation ==
    \A k \in 1..Len(results) :
        (results[k].status = "Success") <=> (results[k].table \in created)

TroubledField(field) == getFieldProperty(field.type, field.options).r # "payload"

\* C6: a table whose creation succeeded is not aborted by its fields: when a
\* field was skipped (no mapping) or its creation call failed, the loop still
\* goes through every field of the table, the sample-data step is reached and
\* the table is recorded, as Success.
C6_FieldFailureIsolated ==
    \A k \in DOMAIN tstate :
        (k \in created /\ tables[k].hasFields) =>
            /\ tstate[k] # "Failed"
            /\ tstate[k] \in {"FieldsBuilt", "Success"} =>
                  fieldsSeen[k] = Len(tables[k].fields)
            /\ tstate[k] = "Success" =>
                  /\ k <= Len(results)
                  /\ results[k].status = "Success"

\* the first table is recorded: its first field has no mapping, its second
\* field was created and it got its rows; in the second table the first
\* field's creation call failed and the second field's call is being made
C6_Witness ==
    /\ Len(results) = 1
    /\ results[1].status = "Success"
    /\ Len(tables[1].fields) = 2
    /\ TroubledField(tables[1].fields[1])
    /\ fieldsSeen[1] = 2
    /\ results[1].fieldsCreated = 1
    /\ results[1].recordsAdded > 0
    /\ i = 2
    /\ pc = "createField"
    /\ f = 2
    /\ fieldsCreated = 0
    /\ Len(tables[2].fields) = 2
    /\ ~TroubledField(tables[2].fields[1])

\* C7: requests follow the per-table order: a request is for the table the
\* loop stands at; a field request is sent only for a created table that has
\* no record request yet; a record request only after the field loop went
\* through all fields; no field or record request for a table whose creation
\* failed; and requests for a table only once all tables before it are
\* finished.
C7_CallOrder ==
    /\ \A k \in DOMAIN issued :
          /\ ("field" \in issued[k] \/ "record" \in issued[k]) =>
                /\ k \in created
                /\ "table" \in issued[k]
          /\ "record" \in issued[k] => fieldsSeen[k] = Len(tables[k].fields)
          /\ issued[k] # {} => \A j \in 1..(k - 1) : Finished(j)
          /\ Finished(k) => ~(apiPc = "fetch" /\ call.table = k)
    /\ (apiPc = "fetch" /\ call.table > 0) =>
          /\ call.table = i
          /\ call.kind = "table" => (tstate[i] = "Pending" /\ issued[i] \subseteq {"table"})
          /\ call.kind = "field" => (tstate[i] = "TableCreated" /\ "record" \notin issued[i])
          /\ call.kind = "record" => tstate[i] = "FieldsBuilt"

\* the second batch of the second table is being sent after a first table
\* that went through all three kinds of request
C7_Witness ==
    /\ apiPc = "fetch"
    /\ call.kind = "record"
    /\ call.table = 2
    /\ batchStart = BatchSize
    /\ issued[1] = {"table", "field", "record"}

----------------------------------------------------------------------------
(* Properties of apiCall (ApiSpec) *)

\* C8: apiCall returns a response whose code is 0 or throws; when all its
\* attempts failed it throws.
C8_ReturnsDataOrThrows ==
    apiPc \in {"returned", "thrown"} =>
        \/ apiPc = "returned" /\ apiRet = "data" /\ gotOk
        \/ apiPc = "thrown" /\ ~gotOk

\* C9: one apiCall sends at most `retries` requests and none after an answer
\* with HTTP success and code 0.
C9_AtMostRetriesRequests ==
    /\ sent <= call.retries
    /\ apiPc = "fetch" => ~gotOk
    /\ gotOk => (apiPc = "returned" /\ apiRet = "data")

\* the default number of attempts, the last of which succeeded
C9_Witness ==
    /\ call.retries = DefaultRetries
    /\ sent = DefaultRetries
    /\ apiPc = "returned"
    /\ gotOk

RateLimited == {"http429", "codeRateLimit"}

\* C10: after a rate-limited attempt (HTTP 429 or code 99991400) the wait is
\* twice the wait that followed the attempt before it, when that attempt was
\* rate limited too.
C10_RateLimitWaitDoubles ==
    \A k \in 2..Len(waits) :
        (waits[k].trigger \in RateLimited /\ waits[k - 1].trigger \in RateLimited) =>
            waits[k].ms = 2 * waits[k - 1].ms

\* the failures of an attempt that are not rate limiting
OtherFailures == {"httpError", "networkError", "codeOther"}

\* C11: a failure other than rate limiting (HTTP error other than 429, network
\* failure, application code other than 0 and 99991400) of an attempt before
\* the last is not thrown: apiCall waits 1000 ms times the number of the
\* attempt and sends the next request; only the failure of the last attempt is
\* thrown to the caller.
C11_OtherFailureRetriedLinearly ==
    /\ \A k \in 1..Len(waits) :
          waits[k].trigger = "error" =>
              /\ waits[k].ms = 1000 * waits[k].attempt
              /\ waits[k].attempt < call.retries
    /\ (apiPc = "fetch" /\ lastAnswer \in OtherFailures) =>
          /\ Len(waits) = sent
          /\ waits[Len(waits)].trigger = "error"
          /\ waits[Len(waits)].attempt = sent
          /\ call.attempt = sent + 1
    /\ apiPc = "thrown" =>
          /\ sent = call.retries
          /\ apiErr = Err(lastAnswer)

\* the first two attempts of a call with the default `retries` failed with an
\* HTTP error and a network failure, the waits were 1 s and 2 s, and the
\* failure of the third attempt was thrown
C11_Witness ==
    /\ call.retries = DefaultRetries
    /\ apiPc = "thrown"
    /\ Len(waits) = 2
    /\ waits[1] = [trigger |-> "error", attempt |-> 1, ms |-> 1000]
    /\ waits[2] = [trigger |-> "error", attempt |-> 2, ms |-> 2000]
    /\ apiErr = Err("codeOther")

----------------------------------------------------------------------------
(* Properties of generateSchemaFromAI (AiSpec) *)

\* C12: generateSchemaFromAI never sends more than 5 requests; when no attempt
\* yields a valid schema it throws only after the 5th request, and the error
\* thrown wraps the message of the failure of the last attempt.
C12_FiveRequestsThenThrows ==
    /\ aiSent <= 5
    /\ aiPc = "fetch" => (aiSent = aiAttempt - 1 /\ aiAttempt <= 5)
    /\ (aiPc = "thrown" /\ env.GEMINI_API_KEY) =>
          /\ aiSent = 5
          /\ aiErr.kind = "aiFailed"
          /\ aiLastError.kind # "none"
          /\ aiErr.last = aiLastError.kind

\* five attempts failed, the last one on an object without tables
C12_Witness ==
    /\ aiPc = "thrown"
    /\ aiSent = 5
    /\ aiErr = [kind |-> "aiFailed", last |-> "aiNoTables"]

\* C13: the waits between the attempts are 1 s, 2 s, 4 s, 8 s: the first is
\* 1000 ms, each next one is twice the one before, one wait follows every
\* failed attempt but the fifth, none follows the fifth.
C13_AiWaitDoubles ==
    /\ Len(aiWaits) <= 4
    /\ Len(aiWaits) >= 1 => aiWaits[1] = 1000
    /\ \A k \in 2..Len(aiWaits) :
          /\ aiWaits[k] = 2 * aiWaits[k - 1]
          /\ aiWaits[k] > aiWaits[k - 1]
    /\ aiPc = "fetch" => Len(aiWaits) = aiSent
    /\ (aiPc = "thrown" /\ env.GEMINI_API_KEY) => Len(aiWaits) = aiSent - 1

\* all five attempts failed
C13_Witness ==
    /\ aiPc = "thrown"
    /\ aiSent = 5
    /\ aiWaits = <<1000, 2000, 4000, 8000>>

\* C14: the attempt that produces a valid schema ends generateSchemaFromAI: it
\* returns the object parsed in that attempt, its request was the last one
\* sent, no wait follows it, and nothing more happens in the call.
C14_ReturnsOnFirstSuccess ==
    /\ aiPc = "fetch" => ~aiGotValid
    /\ aiPc = "returned" => aiGotValid
    /\ aiGotValid =>
          /\ aiPc = "returned"
          /\ aiRet = aiParsed
          /\ aiSent = aiAttempt
          /\ Len(aiWaits) = aiSent - 1
          /\ ~ENABLED AiNext

\* the third attempt was the first to produce a valid schema
C14_Witness ==
    /\ aiPc = "returned"
    /\ aiSent = 3
    /\ aiWaits = <<1000, 2000>>
    /\ Len(aiRet.tables) = MaxTables

\* C18: an object returned by generateSchemaFromAI has a non-empty baseName
\* and an array of at least one table; an attempt whose parsed object lacks
\* either does not return it: the attempt counts as failed, and the next
\* attempt follows unless it was the fifth.
C18_ReturnedSchemaIsValid ==
    /\ aiPc = "returned" =>
          /\ aiRet.baseName # ""
          /\ aiRet.tablesKind = "array"
          /\ Len(aiRet.tables) >= 1
    /\ (/\ aiParsed # NoSchema
        /\ \/ aiParsed.baseName = ""
           \/ aiParsed.tablesKind # "array"
           \/ Len(aiParsed.tables) = 0) =>
          /\ aiPc # "returned"
          /\ aiLastError.kind \in {"aiBadShape", "aiNoTables"}
          /\ \/ aiPc = "fetch" /\ aiAttempt = aiSent + 1
             \/ aiPc = "thrown" /\ aiSent = 5

\* an attempt parsed an object whose `tables` is empty, and the next attempt
\* returned a schema
C18_Witness ==
    /\ aiPc = "returned"
    /\ aiSent = 2
    /\ aiLastError.kind = "aiNoTables"

----------------------------------------------------------------------------
(* More properties of the provisioning run (Spec) *)

\* C15: without an AI API key no request is sent to the AI endpoint, no wait
\* happens, no workspace call (token, base, table, field, records) is made,
\* and the run ends with a 500 response.
C15_NoKeyFailsFast ==
    ~env.GEMINI_API_KEY =>
        /\ aiSent = 0
        /\ aiWaits = <<>>
        /\ aiPc \in {"idle", "entry"}
        /\ tokenSent = 0
        /\ apiPc = "idle"
        /\ sent = 0
        /\ baseState = "none"
        /\ pc \in {"start", "generateSchema", "done"}
        /\ pc = "done" => (response.status = 500 /\ response.success = FALSE)

\* a valid prompt, no key: the run ended on the key check
C15_Witness ==
    /\ ~env.GEMINI_API_KEY
    /\ pc = "done"
    /\ prompt.trimLen > 0
    /\ prompt.len <= MaxPromptLen
    /\ response.status = 500
    /\ response.error = "aiConfigMessage"

\* C19: a run sends at most one authentication request; every workspace call
\* is made after it succeeded and carries the token it returned; when it
\* fails it is not sent again, no base is created and the run ends with a 500
\* response.
C19_TokenAcquiredOnce ==
    /\ tokenSent <= 1
    /\ token # 0 => (token = 1 /\ tokenSent = 1)
    /\ (apiPc = "fetch" \/ sent > 0 \/ baseState # "none") =>
          /\ token = 1
          /\ call.kind # "none" => call.token = token
    /\ (tokenSent = 1 /\ token = 0) =>
          /\ pc = "done"
          /\ response.status = 500
          /\ response.success = FALSE
          /\ baseState = "none"
          /\ apiPc = "idle"
          /\ sent = 0

\* records are being sent for the second table with the token of the only
\* authentication request
C19_Witness ==
    /\ tokenSent = 1
    /\ apiPc = "fetch"
    /\ call.kind = "record"
    /\ call.table = 2
    /\ call.token = 1

\* C20: a workspace call (token, base, table, field or records) is made only
\* when the prompt passed the checks and generateSchemaFromAI returned a
\* schema with a non-empty baseName and 1 to 10 tables; a schema of more than
\* 10 tables ends the run with a 500 response and no token request.
C20_CallsOnlyAfterValidation ==
    /\ (tokenSent > 0 \/ apiPc # "idle" \/ baseState # "none") =>
          /\ prompt.present
          /\ prompt.trimLen > 0
          /\ prompt.len <= 2000
          /\ schema.baseName # ""
          /\ schema.tablesKind = "array"
          /\ Len(schema.tables) >= 1
          /\ Len(schema.tables) <= 10
    /\ Len(schema.tables) > 10 =>
          /\ pc = "done"
          /\ response.status = 500
          /\ response.success = FALSE
          /\ tokenSent = 0
          /\ apiPc = "idle"
    /\ ~TooManyTables(10)
    /\ TooManyTables(11)

\* the AI answered with 11 tables and the run ended before the token
C20_Witness ==
    /\ Len(schema.tables) = 11
    /\ pc = "done"
    /\ response.error = "tooManyTables"
    /\ tokenSent = 0

----------------------------------------------------------------------------
(* Properties of the parsing of the AI text (ParseSpec) *)

\* C16: the three strategies (the whole text, the contents of a fenced json
\* block, the text from the first "{" to the last "}") are tried in this
\* order, each whenever the ones before it gave no result: the outcome is the
\* result of the first strategy that gives one, and the attempt fails only
\* when none does (so JSON inside prose, without a fence, is recovered by the
\* third).
C16_FirstStrategyThatSucceeds ==
    parsePc = "done" =>
        LET t == RawText(answer)
            first == IF DirectParse(t).r = "parsed" THEN DirectParse(t)
                     ELSE IF FencedParse(t).r = "parsed" THEN FencedParse(t)
                     ELSE BraceParse(t)
        IN /\ (parsed.r = "parsed") <=> (first.r = "parsed")
           /\ parsed.r = "parsed" => parsed = first

\* an answer that is a valid schema in a fenced json block and nothing else
FencedOnly(ans) == ans.fence = "json" /\ ans.pre = <<>> /\ ans.post = <<>>

ValidPayload(body) ==
    /\ JSONparse(body).ok
    /\ \E k \in 1..Len(JSONparse(body).value) : JSONparse(body).value[k] = <<"a">>

\* C17: a valid schema payload wrapped in a fenced json block is parsed to the
\* same object as the bare payload.
C17_FencedParsesAsBare ==
    (parsePc = "done" /\ FencedOnly(answer) /\ ValidPayload(answer.body)) =>
        /\ parseRawText(answer.body).r = "parsed"
        /\ parsed.r = "parsed"
        /\ parsed.value = parseRawText(answer.body).value

\* a fenced payload with white space around it and three backticks inside one
\* of its strings: the fenced block's contents do not parse and the third
\* strategy gives the object
C17_Witness ==
    /\ parsePc = "done"
    /\ FencedOnly(answer)
    /\ answer.pad = 1
    /\ answer.body = <<"{", "<", "T", ">", "a", "}">>
    /\ parsed.by = "braces"
    /\ parsed.value = << <<"<", "T">>, <<"a">> >>

\* C21: a prompt that is missing, empty, only white space or longer than 2000
\* characters ends the run with a 500 response and no outbound request: none
\* to the AI endpoint, none to the workspace API.
C21_BadPromptRejected ==
    (~prompt.present \/ prompt.len = 0 \/ prompt.trimLen = 0 \/ prompt.len > 2000) =>
        /\ pc \in {"start", "done"}
        /\ aiPc = "idle"
        /\ aiSent = 0
        /\ tokenSent = 0
        /\ apiPc = "idle"
        /\ sent = 0
        /\ baseState = "none"
        /\ pc = "done" => (response.status = 500 /\ response.success = FALSE)

\* a prompt of white space only was rejected
C21_Witness ==
    /\ prompt.present
    /\ prompt.len > 0
    /\ prompt.trimLen = 0
    /\ pc = "done"
    /\ response.status = 500
    /\ response.error = "promptEmpty"

\* table k was recorded as a success
Recorded(k) == k <= Len(results) /\ results[k].status = "Success"

\* C22: a table gets sample rows only if at least one of its fields was
\* created and its sampleDataCount is above 0; otherwise no batch-insert call
\* is issued for it and its recordsAdded is 0.
C22_RowsOnlyAfterACreatedField ==
    \A k \in 1..Len(batches) :
        ~(made[k] # {} /\ tables[k].sampleDataCount > 0) =>
            /\ batches[k].calls = 0
            /\ "record" \notin issued[k]
            /\ Recorded(k) => results[k].recordsAdded = 0

\* the rows of table k that have a value for some field
RowsWithAValue(k) ==
    { row \in 0..(Min(tables[k].sampleDataCount, 20) - 1) :
        \E j \in 1..Len(tables[k].fields) :
            generateDummyData(tables[k].fields[j].type, tables[k].fields[j].options,
                              row, 0) # null }

\* C23: the rows of a table are submitted in consecutive batches of at most 10
\* rows, at most 20 rows in all; a batch that fails is neither submitted again
\* nor the end of the batches, so that every row is submitted exactly once;
\* recordsAdded is the number of rows of the batches that succeeded.
C23_BatchesOfTenAtMostTwenty ==
    \A k \in 1..Len(batches) :
        /\ batches[k].largest <= 10
        /\ batches[k].rows <= 20
        /\ batches[k].calls * 10 < batches[k].rows + 10
        /\ batches[k].landed <= batches[k].rows
        /\ Recorded(k) =>
              /\ results[k].recordsAdded = batches[k].landed
              /\ batches[k].calls > 0 =>
                    /\ batches[k].rows = Cardinality(RowsWithAValue(k))
                    /\ batches[k].calls = (batches[k].rows + 9) \div 10

\* twelve rows went out as 10 and 2; the first batch failed, the second stored
\* its two rows
C23_Witness ==
    /\ Len(batches) = 1
    /\ Recorded(1)
    /\ tables[1].sampleDataCount = 12
    /\ batches[1] = [calls |-> 2, rows |-> 12, landed |-> 2, largest |-> 10]
    /\ results[1].recordsAdded = 2

\* C24: a row whose every value is null is in no batch, and a table all of
\* whose rows are such gets no batch-insert call.
C24_EmptyRowsNeverSubmitted ==
    \A k \in 1..Len(batches) :
        /\ batches[k].rows <= Cardinality(RowsWithAValue(k))
        /\ RowsWithAValue(k) = {} =>
              /\ batches[k].calls = 0
              /\ "record" \notin issued[k]

\* the only field of the table was created and three rows were asked for, but
\* no row has a value: the table is recorded without a batch call
C24_Witness ==
    /\ Len(batches) = 1
    /\ Recorded(1)
    /\ made[1] = {1}
    /\ tables[1].sampleDataCount = 3
    /\ RowsWithAValue(1) = {}
    /\ batches[1].calls = 0
    /\ results[1].recordsAdded = 0

\* the type name of the field, lower-cased as both functions do
Key == toLowerCase(fieldIn.type)

\* C25: getFieldProperty matches the type name whatever its letter case and
\* returns the fixed type code for each of the thirteen names; for every
\* other name it returns no mapping.
C25_ThirteenCodesElseNothing ==
    (payload # NotMapped /\ fieldIn.type # NoType) =>
        IF Key \in {"text", "number", "single_select", "multi_select", "date",
                    "date_time", "checkbox", "member", "phone", "url", "email",
                    "currency", "rating"}
        THEN /\ payload.r = "payload"
             /\ payload.type =
                  [text |-> 1, number |-> 2, single_select |-> 3, multi_select |-> 4,
                   date |-> 5, date_time |-> 5, checkbox |-> 7, member |-> 11,
                   phone |-> 13, url |-> 15, email |-> 23, currency |-> 25,
                   rating |-> 26][Key]
        ELSE payload.r = "undefined"

\* C26: for a single_select or multi_select field, in whatever letter case,
\* whose option string gives no non-empty entry, getFieldProperty returns the
\* three placeholder options, never an empty option list.
C26_SelectNeverWithoutOptions ==
    (payload # NotMapped /\ Key \in {"single_select", "multi_select"}) =>
        /\ payload.r = "payload"
        /\ payload.options # <<>>
        /\ getOptions(fieldIn.options) = <<>> => Len(payload.options) = 3

\* C27: for a single_select field generateDummyData returns the option at
\* position index modulo the number of options of the parsed option string
\* (A,B,C gives A, B, C, A for the indexes 0 to 3), and a placeholder, not
\* null, when no option is declared.
C27_SingleSelectCycles ==
    (dummy # NotGenerated /\ Key = "single_select") =>
        /\ dummy.kind = "option"
        /\ Len(dummy.names) = 1
        /\ dummy.names[1] # ""
        /\ (fieldIn.options = <<"A", "B", "C">> /\ fieldIn.index <= 3) =>
              dummy.names[1] = <<"A", "B", "C", "A">>[fieldIn.index + 1]
        /\ (fieldIn.options = <<" A", "", "B ">> /\ fieldIn.index <= 3) =>
              dummy.names[1] = <<"A", "B", "A", "B">>[fieldIn.index + 1]
        /\ getOptions(fieldIn.options) # <<>> =>
              dummy.names[1] =
                 getOptions(fieldIn.options)[(fieldIn.index % Len(getOptions(fieldIn.options))) + 1]

\* the fourth row of a field with the options A,B,C got A again
C27_Witness ==
    /\ dummy # NotGenerated
    /\ fieldIn.type = "Single_Select"
    /\ fieldIn.options = <<"A", "B", "C">>
    /\ fieldIn.index = 3
    /\ dummy.names = <<"A">>

\* C28: for a multi_select field generateDummyData returns, for every row
\* index and every option string, a sequence of one or two option names that
\* never holds the same name twice.
C28_MultiSelectDistinct ==
    (dummy # NotGenerated /\ Key = "multi_select") =>
        /\ dummy.kind = "options"
        /\ Len(dummy.names) \in {1, 2}
        /\ \A a, b \in 1..Len(dummy.names) : a # b => dummy.names[a] # dummy.names[b]
        /\ \A a \in 1..Len(dummy.names) : dummy.names[a] # ""

\* the option string names A twice: the value holds it once
C28_Witness ==
    /\ dummy # NotGenerated
    /\ fieldIn.type = "multi_select"
    /\ fieldIn.options = <<"A", "A", "B">>
    /\ fieldIn.index = 0
    /\ dummy.names = <<"A">>

\* C29: for a checkbox field generateDummyData gives the parity of the row
\* index plus one: false for index 0, true for index 1, and so on.
C29_CheckboxAlternates ==
    (dummy # NotGenerated /\ Key = "checkbox") =>
        /\ dummy.kind = "boolean"
        /\ dummy.b = ((fieldIn.index + 1) % 2 = 0)
        /\ fieldIn.index = 0 => dummy.b = FALSE
        /\ fieldIn.index = 1 => dummy.b = TRUE

\* the rows 0 and 1 are told apart: row 1 is checked
C29_Witness ==
    /\ dummy # NotGenerated
    /\ fieldIn.type = "Checkbox"
    /\ fieldIn.index = 1
    /\ dummy.b = TRUE

\* who has a request to send or under way: generateSchemaFromAI, the token
\* request of the handler, apiCall
Pending ==
    (IF aiPc = "fetch" THEN {"ai"} ELSE {})
    \cup (IF pc = "getToken" /\ env.LARK_CREDENTIALS THEN {"token"} ELSE {})
    \cup (IF apiPc = "fetch" THEN {"api"} ELSE {})

\* C30: the remote calls of a run are strictly sequential: at most one request
\* is under way at any time, and while a call is under way the handler stands
\* at the await of that very call, so that the next call is issued only when
\* this one is over.
C30_OneRequestAtATime ==
    /\ Cardinality(Pending) <= 1
    /\ aiPc = "fetch" => pc = "generateSchema"
    /\ apiPc = "fetch" =>
          \/ pc = "createBase" /\ call.kind = "base"
          \/ pc = "createTable" /\ call.kind = "table" /\ call.table = i
          \/ pc = "createField" /\ call.kind = "field" /\ call.table = i
          \/ pc = "batch" /\ call.kind = "record" /\ call.table = i
    /\ pc \in {"createBase", "createTable", "createField", "batch"} => apiPc = "fetch"

\* the second batch of the second table is under way, on its second attempt
\* after a pause, and nothing else is
C30_Witness ==
    /\ pc = "batch"
    /\ i = 2
    /\ batchStart = 10
    /\ apiPc = "fetch"
    /\ call.attempt = 2
    /\ waits # <<>>
    /\ Pending = {"api"}

\* C32: a fatal failure never reaches the caller as the raw internal error: a
\* missing AI key gives the AI-configuration message, missing or rejected
\* workspace credentials the workspace-authentication message, and the
\* exhaustion of the rate-limit retries (AI endpoint, token request, workspace
\* call) the rate-limit message.
C32_FatalErrorsGetUserMessages ==
    (pc = "done" /\ response.status = 500) =>
        /\ response.error \notin {"geminiKeyMissing"}
        /\ response.error \notin {"credentialsMissing", "tokenHttpError", "tokenCode"}
        /\ response.error \notin {"aiHttp429", "tokenHttp429", "codeRateLimit", "typeError"}

\* C33: creation through apiCall is not idempotent under retry: when the
\* workspace carried out the request but the attempt failed on the client's
\* side and attempts remain, the very same request is sent again, and nothing
\* keeps the workspace from carrying it out once more.
C33_AppliedRequestIsSentAgain ==
    [][(/\ pc = "apiCall"
        /\ apiPc = "fetch"
        /\ applied' = applied + 1
        /\ lastAnswer' \in {"networkError", "httpError"}
        /\ call.attempt < call.retries)
       => /\ apiPc' = "fetch"
          /\ call' = [call EXCEPT !.attempt = @ + 1]]_vars

\* the request was carried out twice, and the caller got the data of an
\* ordinary success after two requests
C33_Witness ==
    /\ pc = "apiCall"
    /\ call.retries = DefaultRetries
    /\ apiPc = "returned"
    /\ apiRet = "data"
    /\ sent = 2
    /\ applied = 2

\* C34: the fieldsCreated count recorded for a table is the number of its
\* field calls that the workspace answered with success; a field whose call
\* never succeeded is not counted.
C34_FieldsCreatedCountsSuccesses ==
    \A k \in 1..Len(made) : Recorded(k) => results[k].fieldsCreated = Cardinality(made[k])

\* C35: between two consecutive batch calls of a table there is a pause,
\* whether the earlier batch succeeded or failed: when a batch after the first
\* is about to send its first request, a pause has ended since the last
\* answer.
C35_PauseBetweenBatches ==
    (pc = "batch" /\ batchStart > 0 /\ apiPc = "fetch" /\ sent = 0) => paused

\* the fields of table k that have a value in its records (a field has a
\* value in every row or in none)
FieldsInRecords(k) ==
    { j \in 1..Len(tables[k].fields) :
        generateDummyData(tables[k].fields[j].type, tables[k].fields[j].options,
                          0, 0) # null }

\* C36: the records submitted for a table hold values only for fields whose
\* creation in that table succeeded; a field that was skipped, or whose
\* creation failed, is in no submitted record.
C36_RecordsOnlyOfCreatedFields ==
    \A k \in 1..Len(batches) :
        batches[k].calls > 0 => FieldsInRecords(k) \subseteq made[k]

\* C37: for a select field, in any letter case and with any option string,
\* every name in the value that generateDummyData gives is the name of an
\* option that getFieldProperty declared for the field, the placeholders
\* included.
C37_ValuesAreDeclaredOptions ==
    (payload # NotMapped /\ dummy # NotGenerated
       /\ Key \in {"single_select", "multi_select"}) =>
        /\ payload.r = "payload"
        /\ \A a \in 1..Len(dummy.names) :
              \E b \in 1..Len(payload.options) : payload.options[b] = dummy.names[a]

\* C38: every run of handleApiPost comes to its end and returns exactly one
\* response, provided every outbound request is answered or fails in the end:
\* the run reaches its return, and a response, once made, is the response.
C38_RunTerminatesWithOneResponse ==
    /\ <>(pc = "done" /\ response # NoResponse)
    /\ [][response # NoResponse => response' = response]_vars
    /\ [](response # NoResponse => pc = "done")

\* a run that went through all retries of a table call and all rows of
\* another table has returned its response
C38_Witness ==
    /\ pc = "done"
    /\ response.status = 200
    /\ Len(results) = 2
    /\ results[1].status = "Failed"
    /\ results[2].status = "Success"
    /\ results[2].recordsAdded = 20

\* C31: two runs that go on side by side, in any interleaving, share no
\* state: each run's token is the one its own request returned and its base
\* the one its own call created, and a step of one run leaves the locals of
\* the other (its results, counters and attempt number) as they are.
C31_RunsShareNothing ==
    /\ [](\A r \in DOMAIN runs :
            /\ runs[r].token # 0 => world.tokenLog[runs[r].token] = r
            /\ runs[r].appToken # 0 => world.baseLog[runs[r].appToken] = r)
    /\ [][\A r \in DOMAIN runs : \A q \in DOMAIN runs :
            (r # q /\ runs'[r] # runs[r]) => runs'[q] = runs[q]]_vars

\* the second run got its token first and the first run its base first; the
\* first run ended with its field counted while the second lost its table
C31_Witness ==
    /\ DOMAIN runs = {1, 2}
    /\ runs[1].pc = "done"
    /\ runs[2].pc = "done"
    /\ runs[1].token = 2
    /\ runs[2].token = 1
    /\ runs[1].appToken = 1
    /\ runs[2].appToken = 2
    /\ runs[1].results = <<[status |-> "Success", fieldsCreated |-> 1]>>
    /\ runs[2].results = <<[status |-> "Failed"]>>

\* C39: in onRequestPost of create-lark-base.js nothing is isolated and
\* nothing is tried again: the first call that fails ends the run, the fields
\* and tables after it are never attempted, and the response is a 500 with
\* the error message alone, although the base and the tables created before
\* remain in the workspace.
C39_FirstFailureEndsTheRun ==
    /\ lastAnswer \in PostOutcomes \ {"ok"} =>
          /\ pc = "done"
          /\ response.status = 500
    /\ (pc = "done" /\ response.status = 500 /\ baseState = "created") =>
          /\ DOMAIN response = {"status", "error"}
          /\ \A k \in 1..Len(tables) : k > i => issued[k] = {} /\ k \notin created
          /\ \A k \in 1..Len(tables) :
                issued[k] \in {{}, {"postTable"}, {"postTable", "postField"},
                               {"postTable", "postRecords"},
                               {"postTable", "postField", "postRecords"}}
    /\ (pc = "done" /\ response.status = 200) =>
          /\ Len(response.details) = Len(tables)
          /\ created = 1..Len(tables)

\* the field call of the first table failed: the base and the table are in
\* the workspace, the second table was never attempted, and the response has
\* the error only
C39_Witness ==
    /\ pc = "done"
    /\ Len(tables) = 2
    /\ lastAnswer = "codeOther"
    /\ baseState = "created"
    /\ created = {1}
    /\ issued = << {"postTable", "postField"}, {} >>
    /\ response = [status |-> 500, error |-> "codeOther"]

====
